---- MODULE Spec2Model ----
(***************************************************************************)
(* GhostWire Refractory: the row store (memory_text, dropped_collections), *)
(* the in-memory HNSW index manager, the response caches and the RAG turn  *)
(* pipeline, as state machines translated from the Python sources.         *)
(*                                                                         *)
(* Scalings.  Vectors are tuples of small naturals; a non-finite float is  *)
(* the component NaN.  A vector stands for its direction: normalize_vector *)
(* maps a vector to the representative of its direction (components        *)
(* divided by their gcd), which is what unit-normalisation preserves of a  *)
(* vector for every cosine computed later.  EMBED_DIM and the row limits   *)
(* of the SQL queries are the program's constants scaled down so that the  *)
(* limits are reached with a handful of rows.                              *)
(***************************************************************************)
EXTENDS Integers, Sequences, FiniteSets, TLC

VARIABLES
    rows,          \* table memory_text: set of row records
    seq,           \* sqlite_sequence of memory_text (AUTOINCREMENT high-water mark)
    dropped,       \* table dropped_collections: set of names
    index,         \* HNSWIndexManager._index: set of [id, vec] entries
    initialized,   \* HNSWIndexManager._initialized
    snapshot,      \* file memory_index.bin: [exists, entries]
    now,           \* wall clock
    ret,           \* outcome of the operation that just returned
    born,          \* history: number of rows inserted so far (a row's uid)
    dropMark,      \* history: per session, `born` at its last delete_collection
    cache,         \* table cache: the similarity cache of CacheService
    exact_cache,   \* table exact_response_cache
    turn,          \* the /chat_embedding request in flight
    nturns,        \* number of requests started so far (a turn's id)
    gens,          \* history: per (session, query) the latest generated reply
    persistedBy,   \* history: ids of the turns that wrote a memory row
    genstream,     \* the iterator of a generator stream and what it has yielded
    cached_embed_model, \* EmbeddingService._cached_embed_model, _cached_embed_model
    mgr,           \* HNSWIndexManager._lock and the threads calling the manager
    txn            \* the open transaction of a delete_collection call

storeVars == <<rows, seq, dropped, index, initialized, snapshot, born, dropMark>>

cacheVars == <<cache, exact_cache, gens>>

turnVars == <<turn, nturns, persistedBy>>

vars == <<storeVars, now, ret, cacheVars, turnVars, genstream, cached_embed_model, mgr, txn>>

(***************************************************************************)
(* Bounds of the model.                                                    *)
(***************************************************************************)
MaxRows == 2        \* rows ever inserted
MaxTime == 2        \* clock ticks

(***************************************************************************)
(* Program constants (scaled).                                             *)
(***************************************************************************)
EMBED_DIM == 2          \* settings.EMBED_DIM (768)
SESSION_SCAN_LIMIT == 1 \* limit=100 of query_similar_memories
BACKFILL_LIMIT == 1     \* limit=1000 of _backfill_from_db
NaN == -1               \* a non-finite component

(***************************************************************************)
(* Input domains.                                                          *)
(***************************************************************************)
SessA == <<"a">>
SessB == <<"b">>
Sessions == {SessA, SessB}
TextX == <<"x">>
TextY == <<"y">>
Texts == {TextX, TextY}

GoodVectors == {<<1, 0>>, <<2, 2>>}
BadVectors == {<<1>>, <<NaN, 1>>}
QueryVectors == GoodVectors \cup BadVectors
QueryLimits == {1, 2}   \* the limit / top_k a query asks for
UpsertText == TextX      \* payload text of an upserted point

NoRet == [op |-> "none"]

(***************************************************************************)
(* Vector helpers.                                                         *)
(***************************************************************************)
RECURSIVE Gcd(_, _)
Gcd(a, b) == IF b = 0 THEN a ELSE Gcd(b, a % b)

RECURSIVE GcdAll(_, _)
GcdAll(v, i) == IF i > Len(v) THEN 0 ELSE Gcd(v[i], GcdAll(v, i + 1))

IsFinite(v) == \A i \in 1..Len(v) : v[i] # NaN

IsZero(v) == \A i \in 1..Len(v) : v[i] = 0

\* vector / norm; the zero vector is returned unchanged
normalize_vector(v) ==
    IF IsZero(v) THEN v
    ELSE LET g == GcdAll(v, 1) IN [i \in 1..Len(v) |-> v[i] \div g]

RECURSIVE DotFrom(_, _, _)
DotFrom(a, b, i) == IF i > Len(a) THEN 0 ELSE a[i] * b[i] + DotFrom(a, b, i + 1)

Dot(a, b) == DotFrom(a, b, 1)

Norm2(a) == Dot(a, a)

\* cosine(q, a) >= cosine(q, b) for vectors of non-negative components,
\* with cosine = dot / (|q||x| + 1e-8), which is 0 for a zero vector
SimGE(q, a, b) ==
    IF Norm2(b) = 0 \/ Norm2(q) = 0 THEN TRUE
    ELSE IF Norm2(a) = 0 THEN Dot(q, b) = 0
    ELSE Dot(q, a) * Dot(q, a) * Norm2(b) >= Dot(q, b) * Dot(q, b) * Norm2(a)

(***************************************************************************)
(* Sequence helpers.                                                       *)
(***************************************************************************)
Take(s, n) == SubSeq(s, 1, IF n < Len(s) THEN n ELSE Len(s))

Range(s) == {s[i] : i \in 1..Len(s)}

Min(a, b) == IF a < b THEN a ELSE b

\* all orderings of the finite set R
Perms(R) ==
    {f \in [1..Cardinality(R) -> R] : \A i, j \in 1..Cardinality(R) : i # j => f[i] # f[j]}

(***************************************************************************)
(* Row store: MemoryRepository.                                            *)
(***************************************************************************)
RowsOf(session_id) == {r \in rows : r.session_id = session_id}

\* a rowid without AUTOINCREMENT: one above the largest id the table holds
NextRowId_above_live_rows ==
    IF rows = {} THEN 1
    ELSE (CHOOSE id \in {r.id : r \in rows} : \A r \in rows : r.id <= id) + 1

\* INSERT INTO memory_text: AUTOINCREMENT takes the id above the largest
\* id the table ever held
NextRowId == seq + 1

\* the same SELECT without its WHERE session_id = ? clause
get_memories_any_session(session_id, limit) ==
    {Take(f, limit) : f \in {g \in Perms(rows) :
        \A i, j \in 1..Len(g) : i < j => g[i].timestamp >= g[j].timestamp}}

\* SELECT ... WHERE session_id = ? ORDER BY timestamp DESC LIMIT ?
\* (rows of equal timestamp come in either order)
get_memories_by_session(session_id, limit) ==
    {Take(f, limit) : f \in {g \in Perms(RowsOf(session_id)) :
        \A i, j \in 1..Len(g) : i < j => g[i].timestamp >= g[j].timestamp}}

get_all_sessions == {r.session_id : r \in rows}

\* cosine scan over the rows of the session, best first, top `limit`
CosineRanked(session_id, q, limit) ==
    {Take(f, limit) : f \in {g \in Perms(RowsOf(session_id)) :
        \A i, j \in 1..Len(g) : i < j => SimGE(q, g[i].embedding, g[j].embedding)}}

\* np.dot raises when a stored blob does not have the length of the query
ScanRaises(session_id, q) ==
    \E r \in RowsOf(session_id) : Len(r.embedding) # Len(q)

\* a drop that only records the marker and deletes no row
RowsAfterDelete_marker_only(name) == rows

\* DELETE FROM memory_text WHERE session_id = ?
RowsAfterDelete(name) == rows \ RowsOf(name)

get_collection_size(name) == Cardinality(RowsOf(name))

collection_exists(name) ==
    IF name \in dropped THEN FALSE ELSE get_collection_size(name) > 0

(***************************************************************************)
(* HNSW index manager.                                                     *)
(***************************************************************************)
IndexIds == {e.id : e \in index}

\* label rows hnswlib may answer for a k-NN query: k distinct labels of the
\* index (the search is approximate, so any k of them)
KnnAnswers(ix, k) ==
    {f \in [1..k -> {e.id : e \in ix}] : \A i, j \in 1..k : i # j => f[i] # f[j]}

\* the entries _backfill_from_db adds: per session the rows of
\* get_memories_by_session(session, BACKFILL_LIMIT) whose blob has EMBED_DIM
\* components
BackfillChoices ==
    LET S == get_all_sessions
        perSess == [s \in S |-> get_memories_by_session(s, BACKFILL_LIMIT)]
    IN  {UNION {{[id |-> pick[s][i].id, vec |-> pick[s][i].embedding] :
                    i \in {j \in 1..Len(pick[s]) :
                            Len(pick[s][j].embedding) = EMBED_DIM}} : s \in S} :
            pick \in {p \in [S -> UNION {perSess[s] : s \in S}] :
                        \A s \in S : p[s] \in perSess[s]}}

\* initialize_index: the index it leaves, and how it was obtained.  A
\* snapshot that exists and loads is restored; otherwise the index is
\* rebuilt from the database.
InitOutcomes ==
    IF initialized THEN {[ix |-> index, via |-> "already"]}
    ELSE IF snapshot.exists /\ ~snapshot.corrupt
         THEN {[ix |-> snapshot.entries, via |-> "snapshot"]}
         ELSE {[ix |-> b, via |-> "backfill"] : b \in BackfillChoices}

\* the rows of the set `mem` that the labels name, in label order
RECURSIVE OrderByLabels(_, _, _)
OrderByLabels(labels, mem, i) ==
    IF i > Len(labels) THEN <<>>
    ELSE LET hit == {m \in mem : m.id = labels[i]}
         IN  (IF hit = {} THEN <<>> ELSE <<CHOOSE m \in hit : TRUE>>)
             \o OrderByLabels(labels, mem, i + 1)

(***************************************************************************)
(* MemoryService.                                                          *)
(***************************************************************************)
\* a create_memory without its two checks
ValidEmbedding_unchecked(v) == TRUE

ValidEmbedding(v) == Len(v) = EMBED_DIM /\ IsFinite(v)

\* fallback of query_similar_memories: repository.query_similar_by_embedding
FallbackOutcomes(session_id, q, limit) ==
    IF ScanRaises(session_id, q)
    THEN {[path |-> "raise", labels |-> <<>>, result |-> <<>>]}
    ELSE {[path |-> "fallback", labels |-> <<>>, result |-> f] :
            f \in CosineRanked(session_id, q, limit)}

\* the rows the HNSW branch returns for one answer of knn_query
AnnResult(session_id, labels, limit) ==
    {Take(OrderByLabels(labels, Range(all_memories), 1), limit) :
        all_memories \in get_memories_by_session(session_id, SESSION_SCAN_LIMIT)}

\* query_similar_memories over the index ix (the index initialize_index left)
QueryOutcomes(session_id, v, limit, ix) ==
    IF ~ValidEmbedding(v) THEN {[path |-> "raise", labels |-> <<>>, result |-> <<>>]}
    ELSE LET q == normalize_vector(v)
             count == Cardinality(ix)
             k == Min(limit, count)
         IN  (IF count > 0 /\ k > 0
                 THEN UNION {{[path |-> "ann", labels |-> labels, result |-> r] :
                                r \in AnnResult(session_id, labels, limit)} :
                             labels \in KnnAnswers(ix, k)}
                 ELSE {})
             \cup FallbackOutcomes(session_id, q, limit)

(***************************************************************************)
(* Texts.  A text is a sequence of characters; a literal of the program is *)
(* one element.                                                            *)
(***************************************************************************)
RECURSIVE LStrip(_)
LStrip(s) == IF s # <<>> /\ Head(s) = " " THEN LStrip(Tail(s)) ELSE s

RECURSIVE RStrip(_)
RStrip(s) ==
    IF s # <<>> /\ s[Len(s)] = " " THEN RStrip(SubSeq(s, 1, Len(s) - 1)) ELSE s

\* str.strip()
Strip(s) == RStrip(LStrip(s))

RECURSIVE Concat(_)
\* "".join(parts)
Concat(parts) == IF parts = <<>> THEN <<>> ELSE Head(parts) \o Concat(Tail(parts))

CHUNK_SIZE == 2         \* the step 10 of the chunk loops of rag_query

RECURSIVE ChunksFrom(_, _)
ChunksFrom(response, i) ==
    IF i > Len(response) THEN <<>>
    ELSE <<SubSeq(response, i, Min(i + CHUNK_SIZE - 1, Len(response)))>>
         \o ChunksFrom(response, i + CHUNK_SIZE)

\* for i in range(0, len(response), 10): yield response[i : i + 10]
Chunks(response) == ChunksFrom(response, 1)

RagErrorText == <<"[ERROR] RAG query failed">>
GenErrorText == <<"[ERROR] Generation failed">>
StreamErrorText == <<"[ERROR] Failed to connect to Ollama">>

(***************************************************************************)
(* Upstreams: the embedder and the generator.                              *)
(***************************************************************************)
Zeros == [i \in 1..EMBED_DIM |-> 0]

\* the vector the embedding model gives a text
EmbeddingOf(text) == IF text = TextX THEN <<1, 1>> ELSE <<2, 1>>

\* a vector of a model of another dimension
WrongDimVector == <<1>>

\* EmbeddingService.embed_text: the upstream's vector, unchecked, or the
\* zero vector when the text is empty or the upstream gave nothing
EmbedOutcomes(text) ==
    IF text = <<>> THEN {Zeros}
    ELSE {EmbeddingOf(text), WrongDimVector, Zeros}

\* what generate_response(stream=False) yields, once: the "response" field
\* of the upstream's answer, or the error text
GeneratorReplies == {<<"h", "e", "y">>, GenErrorText}

\* fragments of a streamed generation
Fragments == {<<"h", "e">>, <<"y">>}

(***************************************************************************)
(* CacheService.                                                           *)
(***************************************************************************)
TTL_EXACT == 2          \* ttl_minutes = 120 of cache_exact_response
TTL_APPROX == 1         \* ttl_minutes = 60 of cache_response
CACHE_SCAN_LIMIT == 2   \* LIMIT 100 of the similarity scan
THRESHOLD_NUM == 9      \* cache_similarity_threshold = 0.9 = 9 / 10
THRESHOLD_DEN == 10

\* a threshold is a fraction <<num, den>>; the column is NULL as <<>>
DefaultThreshold == <<THRESHOLD_NUM, THRESHOLD_DEN>>
NoThreshold == <<>>

\* the decimal text of a component
NumText(n) ==
    CASE n = NaN -> "NaN" [] n = 0 -> "0" [] n = 1 -> "1" [] n = 2 -> "2"
      [] OTHER -> "3"

RECURSIVE JsonFrom(_, _)
JsonFrom(v, i) ==
    IF i > Len(v) THEN <<>>
    ELSE (IF i > 1 THEN <<",">> ELSE <<>>) \o <<NumText(v[i])>> \o JsonFrom(v, i + 1)

\* json.dumps(embedding, separators=(",", ":"))
JsonOf(v) == <<"[">> \o JsonFrom(v, 1) \o <<"]">>

\* the text sha256 digests: f"{session_id}:{query}:{json.dumps(embedding)}"
\* (a digest stands for the text it digests)
\* a key over the query and the vector only
generate_cache_key_without_session(session_id, query, query_embedding) ==
    query \o <<":">> \o JsonOf(query_embedding)

generate_cache_key(session_id, query, query_embedding) ==
    session_id \o <<":">> \o query \o <<":">> \o JsonOf(query_embedding)

\* _calculate_similarity(e1, e2) >= num / den, for vectors of non-negative
\* components; the similarity of a zero vector is 0.0
SimilarAtLeast(e1, e2, num, den) ==
    IF Norm2(e1) * Norm2(e2) = 0 THEN FALSE
    ELSE den * den * Dot(e1, e2) * Dot(e1, e2) >= num * num * Norm2(e1) * Norm2(e2)

\* a lookup that deletes nothing
Unexpired_nothing_deleted(table) == table

\* DELETE FROM ... WHERE expires_at < now
Unexpired(table) == {e \in table : ~(e.expires_at < now)}

\* get_exact_response: [hit, response, table], table the
\* exact_response_cache it leaves
get_exact_response(session_id, query) ==
    LET table == Unexpired(exact_cache)
        found == {e \in table : e.session_id = session_id /\ e.query = query
                                 /\ e.expires_at > now}
    IN  [hit |-> found # {},
         response |-> IF found # {} THEN (CHOOSE e \in found : TRUE).response ELSE <<>>,
         table |-> table]

\* an exact_response_cache that never holds the entry written
cache_exact_response_skipped(session_id, query, response, context, ttl_minutes) ==
    exact_cache

\* cache_exact_response: INSERT OR REPLACE under UNIQUE(session_id, query)
cache_exact_response(session_id, query, response, context, ttl_minutes) ==
    {e \in exact_cache : ~(e.session_id = session_id /\ e.query = query)}
    \cup {[session_id |-> session_id, query |-> query, response |-> response,
           context |-> context, created_at |-> now, expires_at |-> now + ttl_minutes]}

\* the similarity scan over the entries in the order the SELECT gave them:
\* the position of the first entry at least as similar as its stored
\* threshold, 0 when there is none, -1 when np.dot raises on a stored vector
\* of another length
RECURSIVE ScanFrom(_, _, _, _)
ScanFrom(entries, query_embedding, similarity_threshold, i) ==
    IF i > Len(entries) THEN 0
    ELSE IF Len(entries[i].query_embedding) # Len(query_embedding) THEN -1
    ELSE LET threshold == IF entries[i].similarity_threshold # NoThreshold
                          THEN entries[i].similarity_threshold
                          ELSE similarity_threshold
         IN  IF SimilarAtLeast(query_embedding, entries[i].query_embedding,
                               threshold[1], threshold[2])
             THEN i
             ELSE ScanFrom(entries, query_embedding, similarity_threshold, i + 1)

\* get_cached_response: the outcomes [hit, response, table, raised].  The
\* expired entries are deleted first; an exception rolls the deletion back.
get_cached_response(session_id, query, query_embedding, similarity_threshold) ==
    LET table == Unexpired(cache)
        cache_key == generate_cache_key(session_id, query, query_embedding)
        byKey == {e \in table : e.cache_key = cache_key /\ e.expires_at > now}
        live == {e \in table : e.session_id = session_id /\ e.expires_at > now}
        scans == {Take(f, CACHE_SCAN_LIMIT) : f \in {g \in Perms(live) :
                    \A i, j \in 1..Len(g) : i < j => g[i].created_at >= g[j].created_at}}
    IN  IF byKey # {}
        THEN {[hit |-> TRUE, response |-> (CHOOSE e \in byKey : TRUE).response,
               table |-> table, raised |-> FALSE]}
        ELSE {LET at == ScanFrom(entries, query_embedding, similarity_threshold, 1)
              IN  IF at = -1 THEN [hit |-> FALSE, response |-> <<>>, table |-> cache,
                                   raised |-> TRUE]
                  ELSE IF at = 0 THEN [hit |-> FALSE, response |-> <<>>, table |-> table,
                                       raised |-> FALSE]
                  ELSE [hit |-> TRUE, response |-> entries[at].response, table |-> table,
                        raised |-> FALSE]
              : entries \in scans}

\* cache_response: INSERT OR REPLACE under UNIQUE(cache_key)
cache_response(session_id, query, query_embedding, response, context, similarity_threshold, ttl_minutes) ==
    LET cache_key == generate_cache_key(session_id, query, query_embedding)
    IN  {e \in cache : e.cache_key # cache_key}
        \cup {[cache_key |-> cache_key, session_id |-> session_id,
               query_embedding |-> query_embedding, response |-> response,
               context |-> context,
               similarity_threshold |-> similarity_threshold,
               created_at |-> now, expires_at |-> now + ttl_minutes]}

(***************************************************************************)
(* Context window: utils/context_optimizer.py under the default settings   *)
(* (optimization on, strategy "recency").                                  *)
(***************************************************************************)
MAX_CONTEXT_ITEMS == 10
MAX_CONTEXT_TOKENS == 2048

Max(a, b) == IF a > b THEN a ELSE b

RECURSIVE WordsFrom(_, _, _)
\* len(text.split())
WordsFrom(text, i, inWord) ==
    IF i > Len(text) THEN 0
    ELSE IF text[i] = " " THEN WordsFrom(text, i + 1, FALSE)
    ELSE (IF inWord THEN 0 ELSE 1) + WordsFrom(text, i + 1, TRUE)

\* max(1, int((len / 4 + words / 0.75) / 2))
estimate_token_count(text) ==
    Max(1, (3 * Len(text) + 16 * WordsFrom(text, 1, FALSE)) \div 24)

\* the loop over the selected contexts: a context that fits is kept whole;
\* one that does not fit is truncated, and a truncated context of 50
\* characters or fewer is skipped, which every text of this model is
RECURSIVE FitContexts(_, _, _)
FitContexts(selected, i, remaining_tokens) ==
    IF i > Len(selected) \/ remaining_tokens <= 0 THEN <<>>
    ELSE LET context_tokens == estimate_token_count(selected[i])
         IN  IF context_tokens <= remaining_tokens
             THEN <<selected[i]>>
                  \o FitContexts(selected, i + 1, remaining_tokens - context_tokens)
             ELSE FitContexts(selected, i + 1, remaining_tokens)

optimize_context_window(contexts) ==
    FitContexts(Take(contexts, MAX_CONTEXT_ITEMS), 1, MAX_CONTEXT_TOKENS)

(***************************************************************************)
(* optimize_context_window with its parameters and settings.  The minimum  *)
(* sensible length of a truncated context and the item limits are scaled   *)
(* down so that texts of twenty characters reach them.                     *)
(***************************************************************************)
MIN_USEFUL_CHARS == 6   \* the 50 of `len(truncated_context) > 50`

\* text.rfind(c + " "), counted from 0; -1 when absent
RFind(text, c) ==
    LET at == {i \in 0..(Len(text) - 2) : text[i + 1] = c /\ text[i + 2] = " "}
    IN  IF at = {} THEN -1 ELSE CHOOSE i \in at : \A j \in at : j <= i

\* truncate_text_to_tokens: int(len * (max_tokens / current) * 0.9)
\* characters, cut back to the last sentence end when that lies beyond
\* int(target_chars * 0.7)
truncate_text_to_tokens(text, max_tokens) ==
    IF max_tokens <= 0 THEN <<>>
    ELSE LET current_tokens == estimate_token_count(text)
             target_chars == (Len(text) * max_tokens * 9) \div (current_tokens * 10)
             truncated == SubSeq(text, 1, target_chars)
             sentence_end == Max(RFind(truncated, "."),
                                 Max(RFind(truncated, "!"), RFind(truncated, "?")))
         IN  IF current_tokens <= max_tokens THEN text
             ELSE IF sentence_end > (target_chars * 7) \div 10
                  THEN SubSeq(truncated, 1, sentence_end + 1)
                  ELSE truncated

\* the first occurrence of every element, in order
RECURSIVE Dedup(_, _)
Dedup(seq_, i) ==
    IF i > Len(seq_) THEN <<>>
    ELSE (IF \E j \in 1..(i - 1) : seq_[j] = seq_[i] THEN <<>> ELSE <<seq_[i]>>)
         \o Dedup(seq_, i + 1)

\* contexts[-n:]
LastN(contexts, n) ==
    SubSeq(contexts, Max(1, Len(contexts) - n + 1), Len(contexts))

\* a selection that applies no item limit
SelectContexts_unlimited(contexts, strategy, min_items, max_items) == contexts

\* the strategy step and the "ensure minimum context items" step
SelectContexts(contexts, strategy, min_items, max_items) ==
    LET half_max == max_items \div 2
        selected_contexts ==
            IF strategy \in {"recency", "relevance"} THEN Take(contexts, max_items)
            ELSE IF Len(contexts) <= min_items \/ Len(contexts) <= max_items
                 THEN contexts
                 ELSE Take(Dedup(Take(contexts, half_max)
                                 \o (IF Len(contexts) > half_max
                                     THEN LastN(contexts, half_max) ELSE contexts), 1),
                           max_items)
    IN  IF Len(selected_contexts) < min_items /\ contexts # <<>>
        THEN Take(contexts, min_items)
        ELSE selected_contexts

\* the token loop: a context that fits is kept and paid for; one that does
\* not fit is truncated to the remaining tokens and, when longer than the
\* minimum length, kept with the budget set to 0; otherwise it is skipped
\* and the loop goes on
RECURSIVE BudgetContexts(_, _, _)
BudgetContexts(selected_contexts, i, remaining_tokens) ==
    IF i > Len(selected_contexts) \/ remaining_tokens <= 0 THEN <<>>
    ELSE LET context == selected_contexts[i]
             context_tokens == estimate_token_count(context)
             truncated_context == truncate_text_to_tokens(context, remaining_tokens)
         IN  IF context_tokens <= remaining_tokens
             THEN <<context>>
                  \o BudgetContexts(selected_contexts, i + 1,
                                    remaining_tokens - context_tokens)
             ELSE IF Len(truncated_context) > MIN_USEFUL_CHARS
                  THEN <<truncated_context>> \o BudgetContexts(selected_contexts, i + 1, 0)
                  ELSE BudgetContexts(selected_contexts, i + 1, remaining_tokens)

RECURSIVE JoinFrom(_, _)
JoinFrom(contexts, i) ==
    IF i > Len(contexts) THEN <<>>
    ELSE (IF i > 1 THEN <<" | ">> ELSE <<>>) \o contexts[i] \o JoinFrom(contexts, i + 1)

\* "Relevant prior notes: " + " | ".join(contexts) + "\n\n", "" for no context
format_optimized_context(contexts) ==
    IF contexts = <<>> THEN <<>>
    ELSE <<"Relevant prior notes: ">> \o JoinFrom(contexts, 1) \o <<"\n\n">>

(***************************************************************************)
(* POST /chat_embedding: request validation.                               *)
(***************************************************************************)
SESSION_ID_MAX == 64
CHAT_TEXT_MAX == 5000
SessionAlphabet == {"a", "b", "0", "_", "-"}   \* letters, digits, "_" and "-"
UnsafePatterns == {"<script", "eval(", "exec("}

\* re.match(r"^[a-zA-Z0-9_-]{1,64}$", session_id): `$` also matches before
\* a newline that ends the string
validate_session_id(session_id) ==
    /\ session_id # <<>>
    /\ LET n == Len(session_id)
           body == IF session_id[n] = "\n" THEN SubSeq(session_id, 1, n - 1)
                   ELSE session_id
       IN  /\ Len(body) >= 1
           /\ Len(body) <= SESSION_ID_MAX
           /\ \A i \in 1..Len(body) : body[i] \in SessionAlphabet

validate_text_content(text, max_length) ==
    /\ text # <<>>
    /\ Len(text) <= max_length
    /\ \A i \in 1..Len(text) : text[i] \notin UnsafePatterns

\* f"{context.strip()}\n\nQuestion: {text.strip()}" when a context is given
MergeContext(text, context) ==
    IF context # <<>> THEN Strip(context) \o <<"\n\nQuestion: ">> \o Strip(text)
    ELSE text

\* the validators of ChatEmbeddingRequest: an exception of a validator is
\* no ValueError, so it leaves the application as an unhandled error
RequestModelStatus(session_id, text, context) ==
    IF ~validate_session_id(session_id) THEN 500
    ELSE IF text # <<>> /\ ~validate_text_content(text, CHAT_TEXT_MAX) THEN 500
    ELSE IF context # <<>> /\ ~validate_text_content(context, CHAT_TEXT_MAX) THEN 500
    ELSE 200

\* chat_with_embedding from validate_embedding on: ValidationError is not
\* EmbeddingDimMismatchError, handle_exception returns no HTTPException, so
\* the handler raises HTTPException(500)
EmbeddingStatus(embedding) == IF ValidEmbedding(embedding) THEN 200 ELSE 500

(***************************************************************************)
(* The request in flight.                                                  *)
(***************************************************************************)
NoGen == [response |-> <<>>, at |-> -1]

IdleTurn ==
    [id |-> 0, pc |-> "idle", status |-> 0, session_id |-> <<>>, text |-> <<>>,
     context |-> <<>>, req_embedding |-> <<>>, embedding |-> <<>>,
     query |-> <<>>, qemb |-> <<>>,
     prior |-> NoGen, at |-> 0, log |-> <<>>, parts |-> <<>>, response |-> <<>>,
     context_text |-> <<>>, pending |-> <<>>, sent |-> <<>>, ids0 |-> {},
     cancelled |-> FALSE]

Terminal == {"idle", "rejected", "done", "cancelled"}

\* the latest reply generated for (session_id, query), NoGen when none
PriorGen(session_id, query) ==
    LET found == {g \in gens : g.session_id = session_id /\ g.query = query}
    IN  IF found = {} THEN NoGen
        ELSE LET g == CHOOSE x \in found : TRUE
             IN  [response |-> g.response, at |-> g.at]

\* the state of a generator function that runs on to yield `pending`
Yielding(t, pending) ==
    [t EXCEPT !.pending = pending,
              !.pc = IF pending = <<>> THEN "done" ELSE "yield"]

(***************************************************************************)
(* The embedder gateway: EmbeddingService of services/embedding_service.py *)
(* and ollama_embed / generate_embedding of the controller script.  One    *)
(* call meets one behaviour of the upstream: per model, an exception, an   *)
(* answer without an embedding, or a vector.  Components are counted in    *)
(* units of the 1e-8 the code pads with.                                   *)
(***************************************************************************)
EPSILON == 1            \* 1e-8, the pad and fallback component
ZERO_GUARD_DEN == 10000 \* the all-zero guard 1e-12 is EPSILON / 10000

EMBED_MODELS == <<"embeddinggemma", "granite-embedding", "nomic-embed-text">>

NoModel == ""           \* None

ModelSet == {EMBED_MODELS[i] : i \in 1..Len(EMBED_MODELS)}

UpstreamVectors == {<<3, 3>>, <<3>>, <<3, 3, 3>>, <<NaN, 3>>, <<0, 0>>}

Replies ==
    {[kind |-> k, vec |-> <<>>] : k \in {"error", "empty"}}
    \cup {[kind |-> "vector", vec |-> v] : v \in UpstreamVectors}

Upstreams == [ModelSet -> Replies]

EmbedTexts == {<<>>, TextX}

\* _get_embedding_from_api: the embedding of the answer, [] when both
\* endpoints raised or answered without one
get_embedding_from_api(reply) == IF reply.kind = "vector" THEN reply.vec ELSE <<>>

EpsVector(n) == [i \in 1..n |-> EPSILON]

RECURSIVE L1From(_, _)
L1From(v, i) ==
    IF i > Len(v) THEN 0
    ELSE (IF v[i] < 0 THEN 0 - v[i] ELSE v[i]) + L1From(v, i + 1)

\* sum(abs(x) for x in v)
L1Norm(v) == L1From(v, 1)

\* truncate or pad with 1e-8 to EMBED_DIM components
FixLength(v) ==
    IF Len(v) < EMBED_DIM THEN v \o EpsVector(EMBED_DIM - Len(v))
    ELSE SubSeq(v, 1, EMBED_DIM)

\* non-finite components become 1e-8
Sanitize(v) == [i \in 1..Len(v) |-> IF v[i] = NaN THEN EPSILON ELSE v[i]]

\* if sum(abs(x)) < 1e-12: [1e-8] * len(v)
GuardZero(v) == IF L1Norm(v) * ZERO_GUARD_DEN < EPSILON THEN EpsVector(Len(v)) ELSE v

\* the `for model_name in settings.EMBED_MODELS` loop of create_embedding
RECURSIVE TryModelsFrom(_, _)
TryModelsFrom(up, i) ==
    IF i > Len(EMBED_MODELS) THEN [vector |-> <<>>, model |-> NoModel, tried |-> <<>>]
    ELSE LET v == get_embedding_from_api(up[EMBED_MODELS[i]])
         IN  IF v # <<>>
             THEN [vector |-> v, model |-> EMBED_MODELS[i], tried |-> <<EMBED_MODELS[i]>>]
             ELSE LET rest == TryModelsFrom(up, i + 1)
                  IN  [rest EXCEPT !.tried = <<EMBED_MODELS[i]>> \o @]

\* EmbeddingService.embed_text(text, model)
embed_text(text, model, up) ==
    IF text = <<>>
    THEN [vector |-> Zeros, model |-> NoModel, cached |-> cached_embed_model,
          tried |-> <<>>]
    ELSE LET model_to_use == IF model # NoModel THEN model
                             ELSE IF cached_embed_model # NoModel THEN cached_embed_model
                             ELSE EMBED_MODELS[1]
             embedding == get_embedding_from_api(up[model_to_use])
         IN  [vector |-> IF embedding # <<>> THEN embedding ELSE Zeros,
              model |-> IF embedding # <<>> THEN model_to_use ELSE NoModel,
              cached |-> IF embedding # <<>> /\ model = NoModel THEN model_to_use
                         ELSE cached_embed_model,
              tried |-> <<model_to_use>>]

\* EmbeddingService.create_embedding for one input string
create_embedding(text, up) ==
    LET first == IF cached_embed_model # NoModel
                 THEN get_embedding_from_api(up[cached_embed_model]) ELSE <<>>
        firstTried == IF cached_embed_model # NoModel THEN <<cached_embed_model>> ELSE <<>>
        scan == IF first # <<>>
                THEN [vector |-> first, model |-> cached_embed_model, tried |-> <<>>]
                ELSE TryModelsFrom(up, 1)
        found == IF scan.vector # <<>> THEN scan.vector ELSE EpsVector(EMBED_DIM)
    IN  [vector |-> GuardZero(Sanitize(FixLength(found))),
         model |-> scan.model,
         cached |-> IF first = <<>> /\ scan.model # NoModel THEN scan.model
                    ELSE cached_embed_model,
         tried |-> firstTried \o scan.tried]

\* the `for model_name in candidate_models` loop of ollama_embed
RECURSIVE OllamaEmbedFrom(_, _, _, _)
OllamaEmbedFrom(candidate_models, up, cached, i) ==
    IF i > Len(candidate_models)
    THEN [vector |-> <<>>, model |-> NoModel, cached |-> cached, tried |-> <<>>]
    ELSE LET model_name == candidate_models[i]
             emb == get_embedding_from_api(up[model_name])
         IN  IF emb # <<>>
             THEN [vector |-> emb, model |-> model_name, cached |-> model_name,
                   tried |-> <<model_name>>]
             ELSE LET after == IF up[model_name].kind = "error" /\ cached = model_name
                               THEN NoModel ELSE cached
                      rest == OllamaEmbedFrom(candidate_models, up, after, i + 1)
                  IN  [rest EXCEPT !.tried = <<model_name>> \o @]

\* ollama_embed(text) of the controller script
ollama_embed(text, up) ==
    OllamaEmbedFrom(IF cached_embed_model # NoModel THEN <<cached_embed_model>>
                    ELSE EMBED_MODELS, up, cached_embed_model, 1)

\* POST /embeddings of api/v1/embeddings.py for one input string
create_embeddings(text, up) ==
    IF ~validate_text_content(text, 10000)
    THEN [status |-> 500, vector |-> <<>>, model |-> NoModel,
          cached |-> cached_embed_model, tried |-> <<>>]
    ELSE [status |-> 200] @@ create_embedding(text, up)

\* POST /v1/embeddings of the controller script for one input string and
\* the model of the request
v1_embeddings(text, model, up) ==
    IF text = <<>> THEN [status |-> 422, vector |-> <<>>]
    ELSE LET got == get_embedding_from_api(up[model])
             embedding_vector == IF got = <<>> THEN EpsVector(EMBED_DIM) ELSE got
         IN  [status |-> 200, vector |-> GuardZero(Sanitize(embedding_vector))]

(***************************************************************************)
(* The generator stream: generate_response(stream=True) of RAGService and  *)
(* stream_from_ollama of the controller script.  A line of the upstream    *)
(* body is kept as what json.loads makes of it: an empty line, a line that *)
(* is not JSON, a JSON value that is not an object, or an object with its  *)
(* response, message.content and done members.                             *)
(***************************************************************************)
MaxFrames == 2          \* lines of one upstream body

FALLBACK_STATUS == 404  \* the status stream_from_ollama answers with its fallback model

NoAnswer == [connected |-> FALSE, status |-> 0]

NoStream ==
    [pc |-> "idle", impl |-> "none", local |-> FALSE, model |-> "", posts |-> 0,
     first |-> NoAnswer, last |-> NoAnswer, lines |-> <<>>, arrived |-> <<>>,
     yielded |-> <<>>, broken |-> FALSE, raised |-> FALSE]

Answers ==
    {NoAnswer} \cup {[connected |-> TRUE, status |-> c] : c \in {200, FALLBACK_STATUS, 500}}

Frames ==
    {[kind |-> k, response |-> <<>>, content |-> <<>>, done |-> FALSE] :
        k \in {"blank", "garbage", "nonobject"}}
    \cup {[kind |-> "object", response |-> f[1], content |-> f[2], done |-> d] :
            f \in {<<<<>>, <<>>>>, <<<<"h">>, <<>>>>, <<<<>>, <<"y">>>>}, d \in BOOLEAN}

Bodies == UNION {[1..n -> Frames] : n \in 0..MaxFrames}

StreamImpls ==
    {[impl |-> "rag", local |-> FALSE], [impl |-> "rag", local |-> TRUE],
     [impl |-> "legacy", local |-> FALSE], [impl |-> "legacy", local |-> TRUE]}

FALLBACK_MODEL == "gemma3:1b"      \* the model named in fallback_payload

\* the model argument: the default, which is the fallback's name, or another
StreamModels == {FALLBACK_MODEL, "llama3"}

\* response.raise_for_status() passes
StatusOk(answer) == answer.connected /\ answer.status \in 200..299

SentinelOf(impl) == IF impl = "rag" THEN GenErrorText ELSE StreamErrorText

\* an exception that leaves the generator instead of being caught
OnStreamException_raises(s) == [s EXCEPT !.pc = "ended", !.raised = TRUE]

\* the outer `except Exception`: yield the sentinel, then the generator ends
OnStreamException(s) ==
    [s EXCEPT !.pc = "ended", !.yielded = Append(@, SentinelOf(s.impl))]

\* obj.get("response") or (obj.get("message", {}) or {}).get("content")
ChunkOf(obj) == IF obj.response # <<>> THEN obj.response ELSE obj.content

\* the body of the `async for line` loop for one line
ReadLine(s, line) ==
    LET t == [s EXCEPT !.arrived = Append(@, line), !.lines = Tail(@)]
    IN  IF line.kind \in {"blank", "garbage"} THEN t
        ELSE IF line.kind = "nonobject" THEN OnStreamException(t)
        ELSE LET chunk == ChunkOf(line)
                 u == IF chunk # <<>> THEN [t EXCEPT !.yielded = Append(@, chunk)] ELSE t
             IN  IF line.done THEN [u EXCEPT !.pc = "ended"] ELSE u

\* the POST and raise_for_status
StreamOpen ==
    /\ genstream.pc = "idle"
    /\ \E i \in StreamImpls, model \in StreamModels, answer \in Answers, body \in Bodies :
        LET s == [genstream EXCEPT !.impl = i.impl, !.local = i.local, !.model = model,
                                   !.posts = 1, !.first = answer, !.last = answer]
        IN  genstream' =
                IF StatusOk(answer) THEN [s EXCEPT !.pc = "reading", !.lines = body]
                ELSE IF /\ i.impl = "legacy"
                        /\ answer.connected
                        /\ answer.status = FALLBACK_STATUS
                        /\ i.local
                     THEN [s EXCEPT !.pc = "retry"]
                     ELSE OnStreamException(s)
    /\ UNCHANGED <<txn, mgr, cached_embed_model, storeVars, now, ret, cacheVars, turnVars>>

\* the second POST of stream_from_ollama, with the fallback model
StreamRetry ==
    /\ genstream.pc = "retry"
    /\ \E answer \in Answers, body \in Bodies :
        LET s == [genstream EXCEPT !.model = FALLBACK_MODEL, !.posts = @ + 1,
                                   !.last = answer]
        IN  genstream' = IF StatusOk(answer)
                         THEN [s EXCEPT !.pc = "reading", !.lines = body]
                         ELSE OnStreamException(s)
    /\ UNCHANGED <<txn, mgr, cached_embed_model, storeVars, now, ret, cacheVars, turnVars>>

\* one turn of the `async for line in response.aiter_lines()` loop; the
\* connection of stream_from_ollama may break under it (generate_response
\* has the whole body when post returns)
StreamRead ==
    /\ genstream.pc = "reading"
    /\ \E broken \in (IF genstream.impl = "legacy" THEN BOOLEAN ELSE {FALSE}) :
        genstream' =
            IF broken THEN OnStreamException([genstream EXCEPT !.broken = TRUE])
            ELSE IF genstream.lines = <<>> THEN [genstream EXCEPT !.pc = "ended"]
            ELSE ReadLine(genstream, Head(genstream.lines))
    /\ UNCHANGED <<txn, mgr, cached_embed_model, storeVars, now, ret, cacheVars, turnVars>>

\* the consumer is done with the iterator
StreamClose ==
    /\ genstream.pc = "ended"
    /\ genstream' = NoStream
    /\ UNCHANGED <<txn, mgr, cached_embed_model, storeVars, now, ret, cacheVars, turnVars>>

StreamNext ==
    \/ StreamOpen
    \/ StreamRetry
    \/ StreamRead
    \/ StreamClose

(***************************************************************************)
(* HNSWIndexManager called from several threads.  Every method body runs    *)
(* under `with self._lock` (an RLock); a thread is at the call, waiting for *)
(* the lock, or inside the body.  hnswlib's add_items is not one step: the  *)
(* entry is half-inserted in between.                                       *)
(***************************************************************************)
Threads == {1, 2}
AddIds == {1, 2}        \* labels the callers of add_items pass
AddVector == <<1, 0>>

NoMgr ==
    [owner |-> 0, pc |-> [t \in Threads |-> "idle"], op |-> [t \in Threads |-> "none"],
     item |-> [t \in Threads |-> 0], partial |-> {}, torn |-> FALSE, inits |-> 0,
     via |-> "none", early |-> FALSE, overlap |-> FALSE]

\* no mutual exclusion at all
CanAcquire_unlocked(t) == TRUE

\* threading.RLock: free, or held by the calling thread
CanAcquire(t) == mgr.owner \in {0, t}

\* leaving the `with` block
Released(m, t) == [m EXCEPT !.owner = 0, !.pc[t] = "idle"]

\* a thread calls initialize_index, add_items or knn_query
MgrCall ==
    /\ \E t \in Threads, op \in {"initialize_index", "add_items", "knn_query"},
          id \in AddIds :
        /\ mgr.pc[t] = "idle"
        /\ mgr' = [mgr EXCEPT !.pc[t] = "lock", !.op[t] = op,
                              !.item[t] = IF op = "add_items" THEN id ELSE 0]
    /\ UNCHANGED <<txn, cached_embed_model, genstream, storeVars, now, ret, cacheVars, turnVars>>

\* `with self._lock:` is entered
MgrAcquire ==
    /\ \E t \in Threads :
        /\ mgr.pc[t] = "lock"
        /\ CanAcquire(t)
        /\ mgr' = [mgr EXCEPT !.owner = t, !.pc[t] = "in"]
    /\ UNCHANGED <<txn, cached_embed_model, genstream, storeVars, now, ret, cacheVars, turnVars>>

\* initialize_index: the `if self._initialized: return` check
MgrInitCheck ==
    /\ \E t \in Threads :
        /\ mgr.pc[t] = "in"
        /\ mgr.op[t] = "initialize_index"
        /\ mgr' = IF initialized THEN Released(mgr, t) ELSE [mgr EXCEPT !.pc[t] = "loading"]
    /\ UNCHANGED <<txn, cached_embed_model, genstream, storeVars, now, ret, cacheVars, turnVars>>

\* initialize_index: load_index, or init_index and _backfill_from_db
MgrInitLoad ==
    /\ \E t \in Threads :
        /\ mgr.pc[t] = "loading"
        /\ \E ix \in (IF snapshot.exists /\ ~snapshot.corrupt
                        THEN {snapshot.entries} ELSE BackfillChoices) :
            /\ index' = ix
            /\ mgr' = [mgr EXCEPT !.pc[t] = "loaded",
                                  !.via = IF snapshot.exists /\ ~snapshot.corrupt
                                          THEN "snapshot" ELSE "backfill",
                                  !.overlap = @ \/ mgr.partial # {}]
    /\ UNCHANGED <<txn, cached_embed_model, genstream, rows, seq, dropped, initialized, snapshot, born, dropMark, now, ret, cacheVars, turnVars>>

\* initialize_index: self._initialized = True, and the lock is released
MgrInitDone ==
    /\ \E t \in Threads :
        /\ mgr.pc[t] = "loaded"
        /\ initialized' = TRUE
        /\ mgr' = [Released(mgr, t) EXCEPT !.inits = @ + 1]
    /\ UNCHANGED <<txn, cached_embed_model, genstream, rows, seq, dropped, index, snapshot, born, dropMark, now, ret, cacheVars, turnVars>>

\* add_items: the initialized check, then hnswlib begins the insertion
MgrAddBegin ==
    /\ \E t \in Threads :
        /\ mgr.pc[t] = "in"
        /\ mgr.op[t] = "add_items"
        /\ mgr' = IF ~initialized THEN Released(mgr, t)
                  ELSE [mgr EXCEPT !.pc[t] = "adding",
                                   !.partial = @ \cup {mgr.item[t]},
                                   !.overlap = @ \/ mgr.partial # {}]
    /\ UNCHANGED <<txn, cached_embed_model, genstream, storeVars, now, ret, cacheVars, turnVars>>

\* add_items: the insertion is complete, and the lock is released
MgrAddEnd ==
    /\ \E t \in Threads :
        /\ mgr.pc[t] = "adding"
        /\ index' = index \cup {[id |-> mgr.item[t], vec |-> AddVector]}
        /\ mgr' = [Released(mgr, t) EXCEPT !.partial = @ \ {mgr.item[t]},
                                           !.early = @ \/ ~initialized]
    /\ UNCHANGED <<txn, cached_embed_model, genstream, rows, seq, dropped, initialized, snapshot, born, dropMark, now, ret, cacheVars, turnVars>>

\* knn_query: the initialized check and hnswlib's search, and the lock is
\* released; `torn` records a search made over a half-inserted entry
MgrQuery ==
    /\ \E t \in Threads :
        /\ mgr.pc[t] = "in"
        /\ mgr.op[t] = "knn_query"
        /\ mgr' = IF ~initialized THEN Released(mgr, t)
                  ELSE [Released(mgr, t) EXCEPT !.torn = @ \/ mgr.partial # {}]
    /\ UNCHANGED <<txn, cached_embed_model, genstream, storeVars, now, ret, cacheVars, turnVars>>

\* all threads are done, shutdown_event saves the index, and a new process
\* starts
MgrRestart ==
    /\ \A t \in Threads : mgr.pc[t] = "idle"
    /\ initialized
    /\ \E saved \in BOOLEAN :
        snapshot' = IF saved THEN [exists |-> TRUE, corrupt |-> FALSE, entries |-> index]
                    ELSE snapshot
    /\ index' = {}
    /\ initialized' = FALSE
    /\ mgr' = NoMgr
    /\ UNCHANGED <<txn, cached_embed_model, genstream, rows, seq, dropped, born, dropMark, now, ret, cacheVars, turnVars>>

(***************************************************************************)
(* MemoryRepository.delete_collection statement by statement.  The pooled  *)
(* connection has sqlite3's default isolation level: the first DELETE      *)
(* opens a transaction, get_connection commits when the block is left and  *)
(* rolls back when it raises.  Other connections read the committed rows.  *)
(***************************************************************************)
NoTxn == [pc |-> "idle", name |-> <<>>, rows |-> {}, dropped |-> {}, result |-> "none", at |-> "none"]

\* a connection in autocommit mode: every statement is written at once
FileState_autocommit(t) == [rows |-> t.rows, dropped |-> t.dropped]

\* what the database file holds while the transaction t is open
FileState(t) == [rows |-> rows, dropped |-> dropped]

\* `except Exception: conn.rollback(); raise`
RolledBack(t) == [NoTxn EXCEPT !.name = t.name, !.result = "raised", !.at = t.pc]

\* delete_collection is called: a connection is taken from the pool
TxnBegin ==
    /\ txn.pc = "idle"
    /\ \E name \in Sessions :
        txn' = [NoTxn EXCEPT !.pc = "delete", !.name = name]
    /\ UNCHANGED <<mgr, cached_embed_model, genstream, storeVars, now, ret, cacheVars, turnVars>>

\* DELETE FROM memory_text WHERE session_id = ?
TxnDelete ==
    /\ txn.pc = "delete"
    /\ \E ok \in BOOLEAN :
        LET t == IF ok THEN [txn EXCEPT !.pc = "insert",
                                        !.rows = {r \in rows : r.session_id # txn.name},
                                        !.dropped = dropped]
                 ELSE RolledBack(txn)
        IN  /\ txn' = t
            /\ rows' = IF ok THEN FileState(t).rows ELSE rows
            /\ dropped' = IF ok THEN FileState(t).dropped ELSE dropped
    /\ UNCHANGED <<mgr, cached_embed_model, genstream, seq, index, initialized, snapshot, born, dropMark, now, ret, cacheVars, turnVars>>

\* INSERT OR REPLACE INTO dropped_collections (name) VALUES (?)
TxnInsert ==
    /\ txn.pc = "insert"
    /\ \E ok \in BOOLEAN :
        LET t == IF ok THEN [txn EXCEPT !.pc = "commit", !.dropped = @ \cup {txn.name}]
                 ELSE RolledBack(txn)
        IN  /\ txn' = t
            /\ rows' = IF ok THEN FileState(t).rows ELSE rows
            /\ dropped' = IF ok THEN FileState(t).dropped ELSE dropped
    /\ UNCHANGED <<mgr, cached_embed_model, genstream, seq, index, initialized, snapshot, born, dropMark, now, ret, cacheVars, turnVars>>

\* the block is left: conn.commit(), and delete_collection returns True
TxnCommit ==
    /\ txn.pc = "commit"
    /\ \E ok \in BOOLEAN :
        IF ok
        THEN /\ rows' = txn.rows
             /\ dropped' = txn.dropped
             /\ dropMark' = [dropMark EXCEPT ![txn.name] = born]
             /\ txn' = [NoTxn EXCEPT !.name = txn.name, !.result = "true"]
        ELSE /\ UNCHANGED <<rows, dropped, dropMark>>
             /\ txn' = RolledBack(txn)
    /\ UNCHANGED <<mgr, cached_embed_model, genstream, seq, index, initialized, snapshot, born, now, ret, cacheVars, turnVars>>

(***************************************************************************)
(* Initial state: empty database, no index file, index manager constructed *)
(* but not initialized.                                                    *)
(***************************************************************************)
Init ==
    /\ rows = {}
    /\ seq = 0
    /\ dropped = {}
    /\ index = {}
    /\ initialized = FALSE
    /\ snapshot = [exists |-> FALSE, corrupt |-> FALSE, entries |-> {}]
    /\ now = 0
    /\ ret = NoRet
    /\ born = 0
    /\ dropMark = [s \in Sessions |-> 0]
    /\ cache = {}
    /\ exact_cache = {}
    /\ turn = IdleTurn
    /\ nturns = 0
    /\ gens = {}
    /\ persistedBy = {}
    /\ genstream = NoStream
    /\ cached_embed_model = NoModel
    /\ mgr = NoMgr
    /\ txn = NoTxn

Idle == ret.op = "none"

\* the caller has read the outcome
Return ==
    /\ ~Idle
    /\ ret' = NoRet
    /\ UNCHANGED <<txn, mgr, cached_embed_model, genstream, rows, seq, dropped, index, initialized, snapshot, now, born, dropMark, cacheVars, turnVars>>

Tick ==
    /\ Idle
    /\ now < MaxTime
    /\ now' = now + 1
    /\ UNCHANGED <<txn, mgr, cached_embed_model, genstream, rows, seq, dropped, index, initialized, snapshot, ret, born, dropMark, cacheVars, turnVars>>

\* MemoryService.create_memory (PUT /collections/{name}/points, /memory,
\* /vectors/upsert): validate, normalize, INSERT, then best-effort index add
CreateMemoryWith(embeddings) ==
    /\ Idle
    /\ seq < MaxRows
    /\ \E session_id \in Sessions, embedding \in embeddings, addOk \in BOOLEAN :
        IF ~ValidEmbedding(embedding)
        THEN /\ ret' = [op |-> "create", status |-> "raise", session_id |-> session_id]
             /\ UNCHANGED <<txn, mgr, cached_embed_model, genstream, rows, seq, index, born>>
        ELSE LET vec == normalize_vector(embedding)
                 id == NextRowId
                 memory == [id |-> id, uid |-> born + 1, session_id |-> session_id,
                            prompt_text |-> UpsertText, answer_text |-> <<>>,
                            timestamp |-> now, embedding |-> vec, turn |-> 0]
             IN  /\ rows' = rows \cup {memory}
                 /\ seq' = id
                 /\ index' = IF initialized /\ addOk
                              THEN index \cup {[id |-> id, vec |-> vec]}
                              ELSE index
                 /\ ret' = [op |-> "create", status |-> "ok", session_id |-> session_id,
                            id |-> id]
                 /\ born' = born + 1
    /\ UNCHANGED <<txn, mgr, cached_embed_model, genstream, dropped, initialized, snapshot, now, dropMark, cacheVars, turnVars>>

CreateMemory == CreateMemoryWith(GoodVectors \cup BadVectors)

\* a drop that also deletes the session's entries of both caches
DeleteCollection_clearing_caches ==
    /\ Idle
    /\ \E name \in Sessions :
        /\ rows' = RowsAfterDelete(name)
        /\ dropped' = dropped \cup {name}
        /\ dropMark' = [dropMark EXCEPT ![name] = born]
        /\ cache' = {e \in cache : e.session_id # name}
        /\ exact_cache' = {e \in exact_cache : e.session_id # name}
        /\ ret' = [op |-> "drop", session_id |-> name]
    /\ UNCHANGED <<txn, mgr, cached_embed_model, genstream, seq, index, initialized, snapshot, now, born, gens, turnVars>>

\* MemoryRepository.delete_collection (DELETE /collections/{name})
DeleteCollection ==
    /\ Idle
    /\ \E name \in Sessions :
        /\ rows' = RowsAfterDelete(name)
        /\ dropped' = dropped \cup {name}
        /\ dropMark' = [dropMark EXCEPT ![name] = born]
        /\ ret' = [op |-> "drop", session_id |-> name]
    /\ UNCHANGED <<txn, mgr, cached_embed_model, genstream, seq, index, initialized, snapshot, now, born, cacheVars, turnVars>>

\* MemoryService.query_similar_memories
QuerySimilar ==
    /\ Idle
    /\ \E session_id \in Sessions, v \in QueryVectors, limit \in QueryLimits :
        \E io \in (IF ValidEmbedding(v) THEN InitOutcomes
                    ELSE {[ix |-> index, via |-> "skipped"]}) :
        \E out \in QueryOutcomes(session_id, v, limit, io.ix) :
            /\ index' = io.ix
            /\ initialized' = (initialized \/ io.via # "skipped")
            /\ ret' = [op |-> "query", session_id |-> session_id, limit |-> limit,
                       valid |-> ValidEmbedding(v),
                       path |-> out.path, labels |-> out.labels, result |-> out.result]
    /\ UNCHANGED <<txn, mgr, cached_embed_model, genstream, rows, seq, dropped, snapshot, now, born, dropMark, cacheVars, turnVars>>

\* HNSWIndexManager.initialize_index, called by the startup event
InitializeIndex ==
    /\ Idle
    /\ ~initialized
    /\ \E io \in InitOutcomes :
        /\ index' = io.ix
        /\ initialized' = TRUE
        /\ ret' = [op |-> "init", via |-> io.via]
    /\ UNCHANGED <<txn, mgr, cached_embed_model, genstream, rows, seq, dropped, snapshot, now, born, dropMark, cacheVars, turnVars>>

\* process exit and restart: the shutdown event saves the index with
\* save_index (graceful exit, initialized index, save succeeding); the new
\* process starts with an unconstructed index
Restart ==
    /\ Idle
    /\ \E saved \in BOOLEAN :
        snapshot' = IF saved /\ initialized
                    THEN [exists |-> TRUE, corrupt |-> FALSE, entries |-> index]
                    ELSE snapshot
    /\ index' = {}
    /\ initialized' = FALSE
    /\ ret' = [op |-> "restart"]
    /\ UNCHANGED <<txn, mgr, cached_embed_model, genstream, rows, seq, dropped, now, born, dropMark, cacheVars, turnVars>>

\* the index file is removed, or no longer loads (load_index raises)
LoseSnapshot ==
    /\ Idle
    /\ snapshot.exists
    /\ \E removed \in BOOLEAN :
        snapshot' = IF removed
                    THEN [exists |-> FALSE, corrupt |-> FALSE, entries |-> {}]
                    ELSE [snapshot EXCEPT !.corrupt = TRUE]
    /\ snapshot' # snapshot
    /\ UNCHANGED <<txn, mgr, cached_embed_model, genstream, rows, seq, dropped, index, initialized, now, ret, born, dropMark, cacheVars, turnVars>>

\* GET /collections/{name} of api/v1/qdrant.py
get_collection_info(name) ==
    [status |-> 200, vectors_count |-> get_collection_size(name)]

GetCollectionInfo ==
    /\ Idle
    /\ \E name \in Sessions :
        ret' = [op |-> "info", session_id |-> name,
                status |-> get_collection_info(name).status]
    /\ UNCHANGED <<txn, mgr, cached_embed_model, genstream, rows, seq, dropped, index, initialized, snapshot, now, born, dropMark, cacheVars, turnVars>>

\* vectors.size a client of PUT /collections/{name} sends in the body
CollectionSizes == {EMBED_DIM, EMBED_DIM + 1}

\* PUT /collections/{name} of api/v1/qdrant.py: the handler has no body
\* parameter, so the size the client sent is never read; it acknowledges and
\* writes nothing
CreateCollection ==
    /\ Idle
    /\ \E name \in Sessions, size \in CollectionSizes :
        ret' = [op |-> "create_collection", impl |-> "api", size |-> size,
                status |-> 200, acknowledged |-> TRUE, affected |-> 1]
    /\ UNCHANGED <<txn, mgr, cached_embed_model, genstream, rows, seq, dropped, index, initialized, snapshot, now, born, dropMark, cacheVars, turnVars>>

StoreNext ==
    \/ Return
    \/ CreateMemory
    \/ DeleteCollection
    \/ QuerySimilar
    \/ InitializeIndex
    \/ Restart
    \/ LoseSnapshot
    \/ GetCollectionInfo
    \/ CreateCollection

SpecStore == Init /\ [][StoreNext]_vars

(***************************************************************************)
(* The Qdrant-compatible collection endpoints, with both handlers of       *)
(* PUT /collections/{name}.                                                *)
(***************************************************************************)
\* q_create_collection of the controller script: the dropped mark is deleted
\* and committed first, then the size is compared with EMBED_DIM
QCreateCollection ==
    /\ Idle
    /\ \E name \in Sessions, size \in CollectionSizes :
        /\ dropped' = dropped \ {name}
        /\ ret' = [op |-> "create_collection", impl |-> "controller", size |-> size,
                   status |-> IF size # EMBED_DIM THEN 400 ELSE 200,
                   acknowledged |-> size = EMBED_DIM, affected |-> 0]
    /\ UNCHANGED <<txn, mgr, cached_embed_model, genstream, rows, seq, index, initialized, snapshot, now, born, dropMark, cacheVars, turnVars>>

CollectionNext ==
    \/ Return
    \/ CreateMemory
    \/ DeleteCollection
    \/ GetCollectionInfo
    \/ CreateCollection
    \/ QCreateCollection

SpecCollection == Init /\ [][CollectionNext]_vars

(***************************************************************************)
(* A database that also holds rows with a zero vector (create_memory       *)
(* accepts it) and rows written by seed_sample_data.py under another       *)
(* embedding dimension.                                                    *)
(***************************************************************************)
SeedDims == {EMBED_DIM, 1}              \* the --embed-dim argument

\* generate_sample_embeddings: a unit vector of embed_dim components
SampleEmbedding(embed_dim) == [i \in 1..embed_dim |-> IF i = 1 THEN 1 ELSE 0]

\* seed_sample_data: a raw INSERT, the index is not told
SeedSampleData ==
    /\ Idle
    /\ seq < MaxRows
    /\ \E embed_dim \in SeedDims :
        LET id == NextRowId
            memory == [id |-> id, uid |-> born + 1, session_id |-> SessA,
                       prompt_text |-> UpsertText, answer_text |-> <<>>,
                       timestamp |-> now, embedding |-> SampleEmbedding(embed_dim),
                       turn |-> 0]
        IN  /\ rows' = rows \cup {memory}
            /\ seq' = id
            /\ born' = born + 1
            /\ ret' = [op |-> "seed", session_id |-> SessA, id |-> id]
    /\ UNCHANGED <<txn, mgr, cached_embed_model, genstream, dropped, index, initialized, snapshot, now, dropMark, cacheVars, turnVars>>

\* create_memory called with the zero vector, a unit vector, or a vector it
\* refuses
CreateZeroMemory == CreateMemoryWith({Zeros, <<1, 0>>} \cup BadVectors)

SeededNext ==
    \/ Return
    \/ SeedSampleData
    \/ CreateZeroMemory
    \/ QuerySimilar
    \/ InitializeIndex
    \/ Restart

SpecSeeded == Init /\ [][SeededNext]_vars

\* create_memory on another connection: its INSERT waits while the
\* transaction of delete_collection holds the write lock
CreateBesideTxn ==
    /\ txn.pc \notin {"insert", "commit"}
    /\ CreateMemory

TxnNext ==
    \/ Return
    \/ CreateBesideTxn
    \/ GetCollectionInfo
    \/ TxnBegin
    \/ TxnDelete
    \/ TxnInsert
    \/ TxnCommit

SpecTxn == Init /\ [][TxnNext]_vars

ThreadNext ==
    \/ MgrCall
    \/ MgrAcquire
    \/ MgrInitCheck
    \/ MgrInitLoad
    \/ MgrInitDone
    \/ MgrAddBegin
    \/ MgrAddEnd
    \/ MgrQuery
    \/ MgrRestart
    \/ LoseSnapshot
    \/ SeedSampleData
    \/ Return

SpecThreads == Init /\ [][ThreadNext]_vars

(***************************************************************************)
(* CacheService called directly: cache_response, get_cached_response,      *)
(* cache_exact_response and get_exact_response with their parameters.      *)
(***************************************************************************)
MaxEntries == 2         \* entries the two cache tables hold together

CacheSessions == {SessA}
CacheVectors == {<<1, 0>>, <<2, 1>>, <<1>>}
CacheReplies == {<<"r">>, <<"s">>}
CacheThresholds == {DefaultThreshold, <<1, 2>>}
CacheTtls == {0, TTL_APPROX}
ExactTtls == {0, TTL_EXACT}

\* the arguments the callers of one session pass
CacheDomain ==
    [sessions |-> CacheSessions, vectors |-> CacheVectors,
     replies |-> [s \in Sessions |-> CacheReplies], thresholds |-> CacheThresholds,
     ttls |-> CacheTtls, exact_ttls |-> ExactTtls]

CachePutFor(d) ==
    /\ Idle
    /\ \E session_id \in d.sessions, query_embedding \in d.vectors,
          similarity_threshold \in d.thresholds, ttl_minutes \in d.ttls :
        \E response \in d.replies[session_id] :
        LET table == cache_response(session_id, TextX, query_embedding, response, <<>>,
                                    similarity_threshold, ttl_minutes)
        IN  /\ Cardinality(table) + Cardinality(exact_cache) <= MaxEntries
            /\ cache' = table
            /\ ret' = [op |-> "cache_put", session_id |-> session_id]
    /\ UNCHANGED <<txn, mgr, cached_embed_model, genstream, storeVars, now, exact_cache, gens, turnVars>>

CacheGetFor(d) ==
    /\ Idle
    /\ \E session_id \in d.sessions, query_embedding \in d.vectors,
          similarity_threshold \in d.thresholds :
        \E out \in get_cached_response(session_id, TextX, query_embedding,
                                       similarity_threshold) :
            /\ cache' = out.table
            /\ ret' = [op |-> "approx_get", session_id |-> session_id, query |-> TextX,
                       embedding |-> query_embedding, threshold |-> similarity_threshold,
                       hit |-> out.hit, response |-> out.response,
                       raised |-> out.raised,
                       purged |-> Cardinality(cache) - Cardinality(out.table)]
    /\ UNCHANGED <<txn, mgr, cached_embed_model, genstream, storeVars, now, exact_cache, gens, turnVars>>

ExactPutFor(d) ==
    /\ Idle
    /\ \E session_id \in d.sessions, ttl_minutes \in d.exact_ttls :
        \E response \in d.replies[session_id] :
        LET table == cache_exact_response(session_id, TextX, response, <<>>, ttl_minutes)
        IN  /\ Cardinality(cache) + Cardinality(table) <= MaxEntries
            /\ exact_cache' = table
            /\ ret' = [op |-> "exact_put", session_id |-> session_id]
    /\ UNCHANGED <<txn, mgr, cached_embed_model, genstream, storeVars, now, cache, gens, turnVars>>

ExactGetFor(d) ==
    /\ Idle
    /\ \E session_id \in d.sessions :
        LET out == get_exact_response(session_id, TextX)
        IN  /\ exact_cache' = out.table
            /\ ret' = [op |-> "exact_get", session_id |-> session_id, query |-> TextX,
                       hit |-> out.hit, response |-> out.response, raised |-> FALSE,
                       purged |-> Cardinality(exact_cache) - Cardinality(out.table)]
    /\ UNCHANGED <<txn, mgr, cached_embed_model, genstream, storeVars, now, cache, gens, turnVars>>

CachePut == CachePutFor(CacheDomain)

CacheGet == CacheGetFor(CacheDomain)

ExactPut == ExactPutFor(CacheDomain)

ExactGet == ExactGetFor(CacheDomain)

CacheNext ==
    \/ Return
    \/ Tick
    \/ CachePut
    \/ CacheGet
    \/ ExactPut
    \/ ExactGet

SpecCache == Init /\ [][CacheNext]_vars

(***************************************************************************)
(* CacheService shared by two sessions.  Each session writes a reply of    *)
(* its own, so a reply tells which session wrote it.                       *)
(***************************************************************************)
INVALIDATE_AGE == 3     \* timedelta(days=7) of invalidate_cache_for_session

ReplyOf(session_id) == IF session_id = SessA THEN <<"r">> ELSE <<"s">>

TenantDomain ==
    [sessions |-> Sessions, vectors |-> {<<1, 0>>, <<2, 0>>},
     replies |-> [s \in Sessions |-> {ReplyOf(s)}], thresholds |-> {DefaultThreshold},
     ttls |-> {TTL_APPROX}, exact_ttls |-> {TTL_EXACT}]

\* invalidate_cache_for_session: DELETE FROM cache WHERE created_at < now - 7
\* days; the session_id argument is not used and exact_response_cache is not
\* touched
invalidate_cache_for_session(session_id) ==
    {e \in cache : ~(e.created_at < now - INVALIDATE_AGE)}

InvalidateCache ==
    /\ Idle
    /\ \E session_id \in Sessions :
        /\ cache' = invalidate_cache_for_session(session_id)
        /\ ret' = [op |-> "invalidate", session_id |-> session_id, ok |-> TRUE]
    /\ UNCHANGED <<txn, mgr, cached_embed_model, genstream, storeVars, now, exact_cache, gens, turnVars>>

TenantPut == CachePutFor(TenantDomain)

TenantGet == CacheGetFor(TenantDomain)

TenantExactPut == ExactPutFor(TenantDomain)

TenantExactGet == ExactGetFor(TenantDomain)

TenantNext ==
    \/ Return
    \/ Tick
    \/ TenantPut
    \/ TenantGet
    \/ TenantExactPut
    \/ TenantExactGet
    \/ InvalidateCache

SpecTenants == Init /\ [][TenantNext]_vars

(***************************************************************************)
(* POST /chat_embedding of api/v1/chat.py and RAGService.rag_query.  Each  *)
(* action runs the coroutine from one suspension point (an await or a      *)
(* yield) to the next.                                                     *)
(***************************************************************************)
MaxTurns == 2           \* requests started

TOP_K == 5              \* top_k of rag_query

\* inputs of a request; an absent embedding, text or context is <<>>
LongSession == [i \in 1..(SESSION_ID_MAX + 1) |-> "a"]
RequestSessions == {SessA, <<"a", "!">>, <<"a", "\n">>, <<>>, LongSession}
RequestTexts == {<<>>, TextX, <<"<script">>}
RequestEmbeddings == {<<>>, <<1, 1>>} \cup BadVectors
RequestContexts == {<<>>, <<"c", " ">>}

\* the handler from validate_embedding to the StreamingResponse
Admit(t, embedding) ==
    IF EmbeddingStatus(embedding) # 200
    THEN [t EXCEPT !.embedding = embedding, !.pc = "rejected",
                   !.status = EmbeddingStatus(embedding)]
    ELSE [t EXCEPT !.embedding = embedding, !.pc = "embed1", !.status = 200,
                   !.query = MergeContext(t.text, t.context)]

\* a request arrives: model validation, then the handler up to its await of
\* embed_text (embedding absent) or up to the StreamingResponse
StartRequestOver(SS, TT, EE, CC) ==
    /\ Idle
    /\ turn.pc \in Terminal
    /\ nturns < MaxTurns
    /\ \E session_id \in SS, text \in TT, embedding \in EE, context \in CC :
        LET t == [IdleTurn EXCEPT !.id = nturns + 1, !.session_id = session_id,
                                  !.text = text, !.context = context,
                                  !.req_embedding = embedding]
            st == RequestModelStatus(session_id, text, context)
        IN  turn' = IF st # 200 THEN [t EXCEPT !.pc = "rejected", !.status = st]
                    ELSE IF embedding = <<>> /\ text # <<>>
                         THEN [t EXCEPT !.pc = "hembed"]
                    ELSE Admit(t, IF embedding = <<>> THEN Zeros ELSE embedding)
    /\ nturns' = nturns + 1
    /\ UNCHANGED <<txn, mgr, cached_embed_model, genstream, storeVars, now, ret, cacheVars, persistedBy>>

StartRequest ==
    StartRequestOver(RequestSessions, RequestTexts, RequestEmbeddings, RequestContexts)

StartTurn == StartRequestOver(Sessions, Texts, {<<>>, <<1, 1>>}, {<<>>})

\* the handler's embed_text(text) returns
HandlerEmbedded ==
    /\ Idle
    /\ turn.pc = "hembed"
    /\ \E e \in EmbedOutcomes(turn.text) :
        turn' = Admit([turn EXCEPT !.log = Append(turn.log, "embed")], e)
    /\ UNCHANGED <<txn, mgr, cached_embed_model, genstream, storeVars, now, ret, cacheVars, nturns, persistedBy>>

\* a lookup that asks the similarity cache before the exact cache
RagLookup_approx_first(session_id, query, qemb) ==
    UNION {IF ap.hit
           THEN {[trace |-> <<"approx_hit">>, hit |-> TRUE, response |-> ap.response,
                  exact |-> exact_cache, cache |-> ap.table]}
           ELSE LET ex == get_exact_response(session_id, query)
                IN  {[trace |-> <<"approx_miss",
                                  IF ex.hit THEN "exact_hit" ELSE "exact_miss">>,
                      hit |-> ex.hit, response |-> ex.response,
                      exact |-> ex.table, cache |-> ap.table]}
           : ap \in get_cached_response(session_id, query, qemb, DefaultThreshold)}

\* the lookups of rag_query: get_exact_response, and get_cached_response
\* when that missed
RagLookup(session_id, query, qemb) ==
    LET ex == get_exact_response(session_id, query)
    IN  IF ex.hit
        THEN {[trace |-> <<"exact_hit">>, hit |-> TRUE, response |-> ex.response,
               exact |-> ex.table, cache |-> cache]}
        ELSE {[trace |-> <<"exact_miss", IF ap.hit THEN "approx_hit" ELSE "approx_miss">>,
               hit |-> ap.hit, response |-> ap.response,
               exact |-> ex.table, cache |-> ap.table]
              : ap \in get_cached_response(session_id, query, qemb, DefaultThreshold)}

\* rag_query: embed_text(query) returns; the cache lookups; on a hit the
\* chunk loop starts, on a miss retrieve_context awaits embed_text
RagEmbedded ==
    /\ Idle
    /\ turn.pc = "embed1"
    /\ \E e \in EmbedOutcomes(turn.query) :
        \E lk \in RagLookup(turn.session_id, turn.query, e) :
            LET t == [turn EXCEPT !.qemb = e, !.at = now,
                                  !.prior = PriorGen(turn.session_id, turn.query),
                                  !.log = turn.log \o <<"embed">> \o lk.trace]
            IN  /\ exact_cache' = lk.exact
                /\ cache' = lk.cache
                /\ turn' = IF lk.hit
                           THEN Yielding([t EXCEPT !.response = lk.response],
                                         Chunks(lk.response))
                           ELSE [t EXCEPT !.pc = "embed2"]
    /\ UNCHANGED <<txn, mgr, cached_embed_model, genstream, storeVars, now, ret, gens, nturns, persistedBy>>

\* retrieve_context: embed_text(query) returns, query_similar_memories, the
\* context window, then generate_response awaits the upstream; an exception
\* of the retrieval is answered with the error text
RagRetrieved ==
    /\ Idle
    /\ turn.pc = "embed2"
    /\ \E e \in EmbedOutcomes(turn.query) :
        \E io \in (IF ValidEmbedding(e) THEN InitOutcomes
                    ELSE {[ix |-> index, via |-> "skipped"]}) :
        \E out \in QueryOutcomes(turn.session_id, e, TOP_K, io.ix) :
            LET contexts == [i \in 1..Len(out.result) |-> out.result[i].prompt_text]
                t == [turn EXCEPT !.log = turn.log \o <<"embed", "retrieve">>]
            IN  /\ index' = io.ix
                /\ initialized' = (initialized \/ io.via # "skipped")
                /\ turn' = IF out.path = "raise"
                           THEN Yielding(t, <<RagErrorText>>)
                           ELSE [t EXCEPT !.pc = "generate",
                                          !.context_text = format_optimized_context(
                                              optimize_context_window(contexts))]
    /\ UNCHANGED <<txn, mgr, cached_embed_model, genstream, rows, seq, dropped, snapshot, born, dropMark, now, ret,
                   cacheVars, nturns, persistedBy>>

\* generate_response(stream=False) yields its one text: the reply is
\* complete, both caches are written, then the chunk loop starts
RagGenerated ==
    /\ Idle
    /\ turn.pc = "generate"
    /\ \E reply \in GeneratorReplies :
        LET response_parts == <<reply>>
            complete_response == Concat(response_parts)
            t == [turn EXCEPT !.parts = response_parts,
                              !.response = complete_response,
                              !.log = turn.log \o <<"generate", "cache_put">>]
        IN  /\ cache' = cache_response(turn.session_id, turn.query, turn.qemb,
                                       complete_response, turn.context_text,
                                       DefaultThreshold, TTL_APPROX)
            /\ exact_cache' = cache_exact_response(turn.session_id, turn.query,
                                                   complete_response, turn.context_text,
                                                   TTL_EXACT)
            /\ gens' = {g \in gens : ~(g.session_id = turn.session_id
                                         /\ g.query = turn.query)}
                       \cup {[session_id |-> turn.session_id, query |-> turn.query,
                              response |-> complete_response, at |-> now]}
            /\ turn' = Yielding(t, Chunks(complete_response))
    /\ UNCHANGED <<txn, mgr, cached_embed_model, genstream, storeVars, now, ret, nturns, persistedBy>>

\* the client receives the chunk the generator function is suspended on
YieldChunk ==
    /\ Idle
    /\ turn.pc = "yield"
    /\ turn' = Yielding([turn EXCEPT !.sent = Append(turn.sent, Head(turn.pending))],
                        Tail(turn.pending))
    /\ UNCHANGED <<txn, mgr, cached_embed_model, genstream, storeVars, now, ret, cacheVars, nturns, persistedBy>>

Suspended == {"hembed", "embed1", "embed2", "generate", "yield",
              "lembed", "open", "streaming", "ending"}

\* a cancellation that still runs the code after the streaming loop
AfterCancel_finally(t) ==
    [t EXCEPT !.cancelled = TRUE,
              !.pc = IF t.pc = "streaming" THEN "ending" ELSE "cancelled"]

\* the client disconnects: CancelledError / GeneratorExit is raised at the
\* suspension point, no except clause catches it, no finally clause runs code
AfterCancel(t) == [t EXCEPT !.cancelled = TRUE, !.pc = "cancelled"]

CancelTurn ==
    /\ Idle
    /\ turn.pc \in Suspended
    /\ turn' = AfterCancel(turn)
    /\ UNCHANGED <<txn, mgr, cached_embed_model, genstream, storeVars, now, ret, cacheVars, nturns, persistedBy>>

HandlerNext == StartRequest \/ HandlerEmbedded \/ CancelTurn

SpecHandler == Init /\ [][HandlerNext]_vars

RagNext ==
    \/ StartTurn
    \/ HandlerEmbedded
    \/ RagEmbedded
    \/ RagRetrieved
    \/ RagGenerated
    \/ YieldChunk
    \/ CancelTurn
    \/ Tick

SpecRag == Init /\ [][RagNext]_vars

\* a request of one text that carries its embedding and goes straight to
\* rag_query
StartRagTurn == StartRequestOver(Sessions, {TextX}, {<<1, 1>>}, {<<>>})

\* RAG turns beside DELETE /collections/{name}
DropRagNext ==
    \/ StartRagTurn
    \/ RagEmbedded
    \/ RagRetrieved
    \/ RagGenerated
    \/ YieldChunk
    \/ Tick
    \/ DeleteCollection
    \/ Return

SpecDropRag == Init /\ [][DropRagNext]_vars

\* requests with and without a text, a well-formed session_id and a
\* well-formed embedding, through the handler and rag_query
ChatSessions == {SessA, <<"a", "!">>}
ChatTexts == {<<>>, TextX}
ChatEmbeddings == {<<>>, <<1, 1>>, <<1>>}

StartChat == StartRequestOver(ChatSessions, ChatTexts, ChatEmbeddings, {<<>>})

ChatNext ==
    \/ StartChat
    \/ HandlerEmbedded
    \/ RagEmbedded
    \/ RagRetrieved
    \/ RagGenerated
    \/ YieldChunk
    \/ CancelTurn

SpecChat == Init /\ [][ChatNext]_vars

(***************************************************************************)
(* POST /chat_embedding of the controller script                           *)
(* (LEGACY/ghostwire_controller.py): chat_embedding and                    *)
(* ask_streaming_with_embedding.                                           *)
(***************************************************************************)
MaxFragments == 2       \* fragments the upstream streams in one turn

LEGACY_LIMIT == 5       \* limit=5 of the retrieval of a turn

\* ollama_embed: the vector of the first model that answers, [] when all fail
LegacyEmbedOutcomes(text) == {EmbeddingOf(text), WrongDimVector, <<>>}

\* chat_embedding after the embedding is known: 500 when auto-generation
\* gave nothing, 422 for a missing text, a wrong length, a non-finite value
LegacyStatus(text, embedding) ==
    IF embedding = <<>> THEN 500
    ELSE IF text = <<>> THEN 422
    ELSE IF Len(embedding) # EMBED_DIM THEN 422
    ELSE IF ~IsFinite(embedding) THEN 422
    ELSE 200

LegacyAdmit(t, embedding) ==
    LET text == MergeContext(t.text, t.context)
        st == LegacyStatus(text, embedding)
    IN  IF st # 200 THEN [t EXCEPT !.embedding = embedding, !.pc = "rejected",
                                   !.status = st]
        ELSE [t EXCEPT !.embedding = embedding, !.query = text, !.status = 200,
                       !.pc = "open"]

\* _ensure_hnsw_initialized: the snapshot when it loads, else every stored
\* row whose blob has EMBED_DIM components
LegacyInitIndex ==
    IF initialized THEN index
    ELSE IF snapshot.exists /\ ~snapshot.corrupt THEN snapshot.entries
    ELSE {[id |-> r.id, vec |-> r.embedding] :
            r \in {x \in rows : Len(x.embedding) = EMBED_DIM}}

\* query_similar_by_embedding of the controller: the rows of the session
\* among the labels of knn_query, in label order; the cosine scan when that
\* is empty or the index query fails
LegacyQueryOutcomes(session_id, embedding, limit, ix) ==
    LET q == normalize_vector(embedding)
        k == Min(limit, Cardinality(ix))
        ann == IF k > 0
               THEN {Take(OrderByLabels(labels, RowsOf(session_id), 1), limit) :
                        labels \in KnnAnswers(ix, k)}
               ELSE {}
    IN  {[path |-> "ann", result |-> r] : r \in ann \ {<<>>}}
        \cup {[path |-> o.path, result |-> o.result] :
                o \in FallbackOutcomes(session_id, q, limit)}

\* a request arrives at the controller
LegacyStart ==
    /\ Idle
    /\ turn.pc \in Terminal
    /\ nturns < MaxTurns
    /\ seq < MaxRows
    /\ \E session_id \in Sessions, text \in {<<>>, TextX},
          embedding \in {<<>>, <<1, 1>>} \cup BadVectors :
        LET t == [IdleTurn EXCEPT !.id = nturns + 1, !.session_id = session_id,
                                  !.text = text, !.req_embedding = embedding,
                                  !.ids0 = IndexIds]
        IN  turn' = IF embedding = <<>> THEN [t EXCEPT !.pc = "lembed"]
                    ELSE LegacyAdmit(t, embedding)
    /\ nturns' = nturns + 1
    /\ UNCHANGED <<txn, mgr, cached_embed_model, genstream, storeVars, now, ret, cacheVars, persistedBy>>

\* ollama_embed(text) returns
LegacyEmbedded ==
    /\ Idle
    /\ turn.pc = "lembed"
    /\ \E e \in LegacyEmbedOutcomes(turn.text) :
        turn' = LegacyAdmit([turn EXCEPT !.log = Append(turn.log, "embed")], e)
    /\ UNCHANGED <<txn, mgr, cached_embed_model, genstream, storeVars, now, ret, cacheVars, nturns, persistedBy>>

\* ask_streaming_with_embedding starts: retrieval, prompt, and the request
\* to the generator; an exception of the retrieval ends the turn with the
\* error text of event_generator
LegacyRetrieve ==
    /\ Idle
    /\ turn.pc = "open"
    /\ \E out \in LegacyQueryOutcomes(turn.session_id, turn.embedding, LEGACY_LIMIT,
                                       LegacyInitIndex) :
        LET memories == out.result
            t == [turn EXCEPT !.log = Append(turn.log, "retrieve"),
                              !.ids0 = {e.id : e \in LegacyInitIndex}]
        IN  turn' = IF out.path = "raise"
                    THEN [t EXCEPT !.pc = "done", !.sent = <<RagErrorText>>]
                    ELSE [t EXCEPT !.pc = "streaming",
                                   !.context_text = format_optimized_context(
                                       [i \in 1..Min(3, Len(memories)) |->
                                            memories[i].prompt_text])]
    /\ index' = LegacyInitIndex
    /\ initialized' = TRUE
    /\ UNCHANGED <<txn, mgr, cached_embed_model, genstream, rows, seq, dropped, snapshot, born, dropMark, now, ret,
                   cacheVars, nturns, persistedBy>>

\* a fragment arrives: answer_parts.append(token); yield token
LegacyToken ==
    /\ Idle
    /\ turn.pc = "streaming"
    /\ Len(turn.parts) < MaxFragments
    /\ \E token \in Fragments :
        turn' = [turn EXCEPT !.parts = Append(turn.parts, token),
                             !.sent = Append(turn.sent, token),
                             !.log = IF turn.parts = <<>>
                                     THEN Append(turn.log, "generate") ELSE turn.log]
    /\ UNCHANGED <<txn, mgr, cached_embed_model, genstream, storeVars, now, ret, cacheVars, nturns, persistedBy>>

\* the stream to the generator fails: stream_from_ollama yields its error
\* text as a last fragment
LegacyStreamError ==
    /\ Idle
    /\ turn.pc = "streaming"
    /\ turn' = [turn EXCEPT !.parts = Append(turn.parts, StreamErrorText),
                            !.sent = Append(turn.sent, StreamErrorText),
                            !.pc = "ending"]
    /\ UNCHANGED <<txn, mgr, cached_embed_model, genstream, storeVars, now, ret, cacheVars, nturns, persistedBy>>

\* an upsert whose exception leaves the generator
OnUpsertFailure_raises(t) == [t EXCEPT !.pc = "raised", !.status = 500]

\* upsert_memory_with_embedding raises (the INSERT fails): the except clause
\* prints a warning and the generator ends
OnUpsertFailure(t) ==
    [t EXCEPT !.pc = "done", !.response = Concat(t.parts),
              !.log = Append(t.log, "persist_failed")]

\* the stream ends (done frame or end of the body): the loop is left and
\* upsert_memory_with_embedding stores the turn
LegacyFinish ==
    /\ Idle
    /\ turn.pc \in {"streaming", "ending"}
    /\ \E dbOk \in BOOLEAN, addOk \in BOOLEAN :
        LET vec == normalize_vector(turn.embedding)
            id == NextRowId
            memory == [id |-> id, uid |-> born + 1, session_id |-> turn.session_id,
                       prompt_text |-> turn.query, answer_text |-> Concat(turn.parts),
                       timestamp |-> now, embedding |-> vec, turn |-> turn.id]
        IN  IF dbOk
            THEN /\ rows' = rows \cup {memory}
                 /\ seq' = id
                 /\ born' = born + 1
                 /\ index' = IF addOk THEN index \cup {[id |-> id, vec |-> vec]}
                              ELSE index
                 /\ persistedBy' = persistedBy \cup {turn.id}
                 /\ turn' = [turn EXCEPT !.pc = "done", !.response = Concat(turn.parts),
                                         !.log = Append(turn.log, "persist")]
            ELSE /\ turn' = OnUpsertFailure(turn)
                 /\ UNCHANGED <<txn, mgr, cached_embed_model, genstream, rows, seq, born, index, persistedBy>>
    /\ UNCHANGED <<txn, mgr, cached_embed_model, genstream, dropped, initialized, snapshot, dropMark, now, ret, cacheVars, nturns>>

LegacyNext ==
    \/ LegacyStart
    \/ LegacyEmbedded
    \/ LegacyRetrieve
    \/ LegacyToken
    \/ LegacyStreamError
    \/ LegacyFinish
    \/ CancelTurn

SpecLegacy == Init /\ [][LegacyNext]_vars

SpecStream == Init /\ [][StreamNext]_vars

(***************************************************************************)
(* Calls of the embedder gateway and of the embeddings endpoints.          *)
(***************************************************************************)
\* what the caller of a gateway call sees, with the sticky model before it
EmbedRet(op, text, requested, up, out, status) ==
    [op |-> op, text |-> text, requested |-> requested, cached0 |-> cached_embed_model,
     up |-> up, vector |-> out.vector, model |-> out.model, tried |-> out.tried,
     status |-> status]

EmbedText ==
    /\ Idle
    /\ \E text \in EmbedTexts, model \in {NoModel, EMBED_MODELS[2]}, up \in Upstreams :
        LET out == embed_text(text, model, up)
        IN  /\ cached_embed_model' = out.cached
            /\ ret' = EmbedRet("embed_text", text, model, up, out, 0)
    /\ UNCHANGED <<txn, mgr, storeVars, now, cacheVars, turnVars, genstream>>

CreateEmbedding ==
    /\ Idle
    /\ \E text \in EmbedTexts, up \in Upstreams :
        LET out == create_embedding(text, up)
        IN  /\ cached_embed_model' = out.cached
            /\ ret' = EmbedRet("create_embedding", text, NoModel, up, out, 0)
    /\ UNCHANGED <<txn, mgr, storeVars, now, cacheVars, turnVars, genstream>>

OllamaEmbed ==
    /\ Idle
    /\ \E text \in EmbedTexts, up \in Upstreams :
        LET out == ollama_embed(text, up)
        IN  /\ cached_embed_model' = out.cached
            /\ ret' = EmbedRet("ollama_embed", text, NoModel, up, out, 0)
    /\ UNCHANGED <<txn, mgr, storeVars, now, cacheVars, turnVars, genstream>>

\* POST /api/v1/embeddings
CreateEmbeddings ==
    /\ Idle
    /\ \E text \in EmbedTexts, up \in Upstreams :
        LET out == create_embeddings(text, up)
        IN  /\ cached_embed_model' = out.cached
            /\ ret' = EmbedRet("create_embeddings", text, NoModel, up, out, out.status)
    /\ UNCHANGED <<txn, mgr, storeVars, now, cacheVars, turnVars, genstream>>

\* POST /v1/embeddings of the controller script
V1Embeddings ==
    /\ Idle
    /\ \E text \in EmbedTexts, model \in ModelSet, up \in Upstreams :
        LET out == v1_embeddings(text, model, up)
        IN  ret' = [op |-> "v1_embeddings", text |-> text, requested |-> model,
                    cached0 |-> cached_embed_model, up |-> up, vector |-> out.vector,
                    model |-> NoModel, tried |-> <<model>>, status |-> out.status]
    /\ UNCHANGED <<txn, mgr, storeVars, now, cacheVars, turnVars, genstream, cached_embed_model>>

EmbedNext ==
    \/ Return
    \/ EmbedText
    \/ CreateEmbedding
    \/ OllamaEmbed
    \/ CreateEmbeddings
    \/ V1Embeddings

SpecEmbed == Init /\ [][EmbedNext]_vars

(***************************************************************************)
(* Calls of optimize_context_window.                                       *)
(***************************************************************************)
MaxContexts == 3        \* contexts of one call

Rep(c, n) == [i \in 1..n |-> c]

\* "aa": 1 token
ShortNote == Rep("a", 2)
\* twenty characters in two words, 3 tokens, a sentence end at 4
EarlyStopNote == Rep("b", 4) \o <<".", " ">> \o Rep("b", 14)
\* twenty characters in two words, 3 tokens, a sentence end at 9
LateStopNote == Rep("d", 9) \o <<".", " ">> \o Rep("d", 9)

ContextTexts == {ShortNote, EarlyStopNote, LateStopNote}

ContextLists == UNION {[1..n -> ContextTexts] : n \in 0..MaxContexts}

TokenBudgets == 1..4

Strategies == {"recency", "relevance", "hybrid"}

\* MIN_CONTEXT_ITEMS and MAX_CONTEXT_ITEMS of the settings (1 and 10)
ItemLimits == {[min_items |-> 1, max_items |-> 2], [min_items |-> 2, max_items |-> 2]}

OptimizeContextWindow ==
    /\ Idle
    /\ \E contexts \in ContextLists, max_tokens \in TokenBudgets,
          strategy \in Strategies, lim \in ItemLimits :
        LET selected == SelectContexts(contexts, strategy, lim.min_items, lim.max_items)
        IN  ret' = [op |-> "optimize", contexts |-> contexts, max_tokens |-> max_tokens,
                    strategy |-> strategy, min_items |-> lim.min_items,
                    max_items |-> lim.max_items, selected |-> selected,
                    result |-> IF contexts = <<>> THEN <<>>
                               ELSE BudgetContexts(selected, 1, max_tokens)]
    /\ UNCHANGED <<txn, mgr, storeVars, now, cacheVars, turnVars, genstream, cached_embed_model>>

ContextNext ==
    \/ Return
    \/ OptimizeContextWindow

SpecContext == Init /\ [][ContextNext]_vars

(***************************************************************************)
(* Properties.                                                             *)
(***************************************************************************)
RowOfId(id) == {r \in rows : r.id = id}

\* C1: query_similar_memories(S, v, k) returns only turns whose session_id
\* is S, on the HNSW path and on the cosine fallback, whatever ids the index
\* answers.
C1_OnlyOwnSession ==
    ret.op = "query" =>
        \A i \in 1..Len(ret.result) : ret.result[i].session_id = ret.session_id

\* the index answered a label of another session's row and the query still
\* returned a row
C1_ForeignLabelFiltered ==
    /\ ret.op = "query"
    /\ ret.path = "ann"
    /\ Len(ret.result) > 0
    /\ \E i \in 1..Len(ret.labels) :
          \E r \in RowOfId(ret.labels[i]) : r.session_id # ret.session_id

\* C2: after delete_collection(S) no retrieval against S returns a turn
\* inserted before that drop, although the index keeps the orphan ids.
C2_NothingFromBeforeDrop ==
    ret.op = "query" =>
        \A i \in 1..Len(ret.result) : ret.result[i].uid > dropMark[ret.session_id]

\* a query on a dropped and rewritten session: the index answered an orphan
\* label next to the label of the later turn, which is returned
C2_OrphanLabelAfterDrop ==
    /\ ret.op = "query"
    /\ ret.path = "ann"
    /\ dropMark[ret.session_id] > 0
    /\ Len(ret.result) > 0
    /\ \E i \in 1..Len(ret.labels) : RowOfId(ret.labels[i]) = {}

\* C6: a warm rebuild leaves in the index exactly the ids of the stored rows
\* whose embedding has EMBED_DIM components.
C6_WarmRebuildComplete ==
    (ret.op = "init" /\ ret.via = "backfill") =>
        IndexIds = {r.id : r \in {x \in rows : Len(x.embedding) = EMBED_DIM}}

\* C9: GET /collections/{S} answers 404 when S is in dropped_collections or
\* holds no row.
C9_InfoNotFound ==
    ret.op = "info" =>
        ((ret.session_id \in dropped \/ get_collection_size(ret.session_id) = 0)
            => ret.status = 404)

(***************************************************************************)
(* Properties of the streaming turn.                                       *)
(***************************************************************************)
Tagged(tag) == {i \in 1..Len(turn.log) : turn.log[i] = tag}

Generated == Tagged("generate") # {}

\* C3: when a streaming turn has ended, the turn has written its memory row
\* if and only if the client observed a generated reply.
C3_PersistIffObserved ==
    turn.pc = "done" =>
        ((turn.id \in persistedBy) <=> (Generated /\ turn.sent # <<>>))

C5_LookupOrder ==
    LET work == Tagged("retrieve") \cup Tagged("generate") \cup Tagged("persist")
        approx == Tagged("approx_hit") \cup Tagged("approx_miss")
    IN  /\ \A a \in approx : \E e \in Tagged("exact_miss") : e < a
        /\ \A w \in work : \E e \in Tagged("exact_miss"), a \in Tagged("approx_miss") :
                e < a /\ a < w
        /\ Tagged("exact_hit") # {} => approx = {}
        /\ (Tagged("exact_hit") \cup Tagged("approx_hit")) # {} =>
                (work = {} /\ turn.id \notin persistedBy)

\* a turn served by the similarity cache after its exact lookup missed
C5_ApproxHitAfterExactMiss ==
    /\ turn.pc = "done"
    /\ Tagged("exact_miss") # {}
    /\ Tagged("approx_hit") # {}
    /\ turn.sent # <<>>

NonEmpty(fragment) == fragment # <<>>

\* C7: at every point of a generating turn the fragments the client has
\* received are the non-empty fragments the generator has yielded so far, in
\* that order.
C7_ForwardedAsArrives == Generated => turn.sent = SelectSeq(turn.parts, NonEmpty)

\* C8: a cancelled turn has written no memory row and has added nothing to
\* the index.
C8_CancelledTurnPersistsNothing ==
    turn.cancelled =>
        /\ turn.id \notin persistedBy
        /\ \A r \in rows : r.turn # turn.id
        /\ IndexIds = turn.ids0

\* a turn cancelled after the client received part of the reply
C8_CancelledMidStream ==
    /\ turn.cancelled
    /\ turn.pc = "cancelled"
    /\ turn.parts # <<>>
    /\ turn.sent = turn.parts

\* the session_id rule of the interface: allowed characters, at most
\* SESSION_ID_MAX of them
SessionWellFormed(session_id) ==
    /\ Len(session_id) <= SESSION_ID_MAX
    /\ \A i \in 1..Len(session_id) : session_id[i] \in SessionAlphabet

\* C10: a request carrying an embedding of another length or with a
\* non-finite component, or an ill-formed session_id, is answered 422.
C10_InvalidRequestIs422 ==
    (/\ turn.pc \notin {"idle", "hembed"}
     /\ \/ (turn.req_embedding # <<>> /\ ~ValidEmbedding(turn.req_embedding))
        \/ ~SessionWellFormed(turn.session_id))
    => turn.status = 422

(***************************************************************************)
(* Properties of request validation and failure handling.                  *)
(***************************************************************************)
\* the input rule of a turn: a well-formed non-empty session_id, a non-empty
\* text of at most CHAT_TEXT_MAX characters, and an embedding that is absent
\* or has EMBED_DIM finite components
RequestInvalid ==
    /\ turn.id > 0
    /\ \/ turn.session_id = <<>>
       \/ ~SessionWellFormed(turn.session_id)
       \/ turn.text = <<>>
       \/ Len(turn.text) > CHAT_TEXT_MAX
       \/ (turn.req_embedding # <<>> /\ ~ValidEmbedding(turn.req_embedding))

\* C11: a request that breaks the input rule calls neither the embedder (for
\* a text) nor the generator, and writes neither a cache entry nor a row.
C11_InvalidRequestTouchesNothing ==
    RequestInvalid =>
        /\ turn.text # <<>> => Tagged("embed") = {}
        /\ Tagged("generate") = {}
        /\ Tagged("cache_put") = {}
        /\ Tagged("persist") = {}
        /\ turn.sent = <<>>

ErrorTexts == {RagErrorText, GenErrorText, StreamErrorText}

ErrorCount(stream) == Cardinality({i \in 1..Len(stream) : stream[i] \in ErrorTexts})

IsPrefix(a, b) == Len(a) <= Len(b) /\ SubSeq(b, 1, Len(a)) = a

\* C12: once a turn is admitted (status 200), no later step changes its
\* status or raises out of the stream, what the client has received is only
\* extended, and the stream carries at most one error line.
C12_FailuresStayInBand ==
    [][(turn.status = 200 /\ turn'.id = turn.id) =>
            /\ turn'.status = 200
            /\ turn'.pc # "raised"
            /\ IsPrefix(turn.sent, turn'.sent)
            /\ ErrorCount(turn'.sent) <= 1]_vars

\* a turn that ended after a fragment, a failure of the generator stream and
\* a failed write of its row
C12_DegradedTurnCompleted ==
    /\ turn.pc = "done"
    /\ turn.status = 200
    /\ Tagged("persist_failed") # {}
    /\ Len(turn.sent) >= 2
    /\ turn.sent[Len(turn.sent)] = StreamErrorText

\* C13: a turn whose request carries a valid embedding never calls the
\* embedder, and the vector of its cache lookup is the supplied one.
C13_SuppliedEmbeddingUsed ==
    (turn.req_embedding # <<>> /\ ValidEmbedding(turn.req_embedding)) =>
        /\ Tagged("embed") = {}
        /\ turn.qemb \in {<<>>, turn.req_embedding}

(***************************************************************************)
(* Properties of the caches.                                               *)
(***************************************************************************)
\* the table a lookup reads
TableOf(op) == IF op = "exact_get" THEN exact_cache ELSE cache

\* the entries of its table that may answer the lookup that returned
Answering ==
    {e \in TableOf(ret.op) : /\ e.session_id = ret.session_id
                             /\ e.response = ret.response
                             /\ (ret.op = "exact_get" => e.query = ret.query)}

\* C14, as stated: a lookup returns no entry with expires_at <= now, and
\* after any lookup its table holds no entry with expires_at <= now.
C14_ExpiredNeverServedAlwaysRemoved ==
    ret.op \in {"exact_get", "approx_get"} =>
        /\ ret.hit => \E e \in Answering : e.expires_at > now
        /\ \A e \in TableOf(ret.op) : e.expires_at > now

\* C14, amended: a lookup returns no entry with expires_at <= now, and after
\* a lookup that did not raise internally its table holds no entry with
\* expires_at < now.
C14_ExpiredNeverServed ==
    ret.op \in {"exact_get", "approx_get"} =>
        /\ ret.hit => \E e \in Answering : e.expires_at > now
        /\ ~ret.raised => \A e \in TableOf(ret.op) : ~(e.expires_at < now)

\* an exact lookup that deleted an expired entry and missed, while an entry
\* expiring at this very moment stays stored in the similarity cache
C14_ExpiredPurgedOnMiss ==
    /\ ret.op = "exact_get"
    /\ ~ret.hit
    /\ ret.purged > 0
    /\ \E e \in cache : e.expires_at = now

\* a / b >= c / d for fractions <<a, b>> and <<c, d>>
FracGE(x, y) == x[1] * y[2] >= y[1] * x[2]

MaxThreshold(x, y) == IF FracGE(x, y) THEN x ELSE y

\* C15: get_cached_response returns only an entry whose similarity to the
\* query vector reaches the larger of the caller's threshold and the
\* threshold stored with the entry.
C15_HitReachesBothThresholds ==
    (ret.op = "approx_get" /\ ret.hit) =>
        \E e \in Answering :
            /\ Len(e.query_embedding) = Len(ret.embedding)
            /\ LET t == MaxThreshold(ret.threshold, e.similarity_threshold)
               IN  SimilarAtLeast(ret.embedding, e.query_embedding, t[1], t[2])

(***************************************************************************)
(* Properties of the identities of the row store.                          *)
(***************************************************************************)
\* C16: every entry of the index carries the id of a row that memory_text
\* holds.
C16_IndexEntriesLive == \A e \in index : RowOfId(e.id) # {}

\* C16, amended: an index entry carries the id and the vector of a row that
\* memory_text holds, or the id of a row inserted before some
\* delete_collection (ids are handed out densely, so an id up to the number
\* of rows inserted before a drop is the id of such a row).
C16_IndexEntriesLiveOrDropped ==
    \A e \in index :
        IF RowOfId(e.id) # {}
        THEN \A r \in RowOfId(e.id) : r.embedding = e.vec
        ELSE \E name \in Sessions : e.id \in 1..dropMark[name]

\* a drop has just deleted the row of an index entry, which stays in the
\* index beside the entry of a row of another session
C16_OrphanBesideLiveEntry ==
    /\ ret.op = "drop"
    /\ \E e \in index : RowOfId(e.id) = {}
    /\ \E e \in index : RowOfId(e.id) # {}

\* the ids some index entry, loaded or saved in the index file, carries
KnownIndexIds == IndexIds \cup {e.id : e \in snapshot.entries}

\* C17: an inserted row gets an id above the id of every row the table
\* holds, above the number of rows inserted before it (ids are handed out
\* from 1, so every earlier id, dropped or not, is at most that number), and
\* different from every id an index entry carries.
C17_IdsNeverReused ==
    [][\A r \in rows' \ rows :
            /\ \A o \in rows : o.id < r.id
            /\ r.id > born
            /\ r.id \notin KnownIndexIds]_vars

\* a row written into a session after its drop, while the index still
\* carries the id of a row the drop deleted
C17_InsertBesideOrphan ==
    /\ ret.op = "create"
    /\ ret.status = "ok"
    /\ dropMark[ret.session_id] > 0
    /\ \E e \in index : RowOfId(e.id) = {} /\ e.id < ret.id

\* the turns inserted into the session since its last drop
InsertedSinceDrop(name) == {r \in RowsOf(name) : r.uid > dropMark[name]}

\* C18: collection_exists(S) is true exactly when a turn was inserted into S
\* since the last drop of S.
C18_ExistsIffInsertedSinceDrop ==
    \A name \in Sessions : collection_exists(name) <=> InsertedSinceDrop(name) # {}

(***************************************************************************)
(* Properties of the generator stream.                                     *)
(***************************************************************************)
\* the token fragment of a well-formed frame
FragmentOf(frame) ==
    IF frame.kind # "object" THEN <<>>
    ELSE IF frame.response # <<>> THEN frame.response ELSE frame.content

IsDoneFrame(frame) == frame.kind = "object" /\ frame.done

\* the non-empty fragments of the frames from the i-th on, up to and
\* including the first done frame
RECURSIVE FragmentsUntilDone(_, _)
FragmentsUntilDone(frames, i) ==
    IF i > Len(frames) THEN <<>>
    ELSE (IF FragmentOf(frames[i]) # <<>> THEN <<FragmentOf(frames[i])>> ELSE <<>>)
         \o (IF IsDoneFrame(frames[i]) THEN <<>> ELSE FragmentsUntilDone(frames, i + 1))

\* C19: over an upstream that answered 2xx and did not break, the stream has
\* yielded exactly the fragments of the frames read so far, and it has ended
\* only at a done frame or at the end of the body, having yielded the
\* fragments of the whole body up to the first done frame.
C19_StreamYieldsFragmentsUntilDone ==
    (/\ genstream.pc \in {"reading", "ended"}
     /\ genstream.last.connected
     /\ genstream.last.status \in 200..299
     /\ ~genstream.broken) =>
        /\ genstream.yielded = FragmentsUntilDone(genstream.arrived, 1)
        /\ genstream.pc = "ended" =>
            /\ genstream.yielded =
                    FragmentsUntilDone(genstream.arrived \o genstream.lines, 1)
            /\ \/ genstream.lines = <<>>
               \/ /\ genstream.arrived # <<>>
                  /\ IsDoneFrame(genstream.arrived[Len(genstream.arrived)])

AnswerFailed(answer) == ~answer.connected \/ answer.status \notin 200..299

\* the stream has ended with exactly one sentinel, its last item
EndedWithOneSentinel ==
    /\ genstream.pc = "ended"
    /\ ErrorCount(genstream.yielded) = 1
    /\ genstream.yielded[Len(genstream.yielded)] \in ErrorTexts

\* C20, as stated: the stream never raises and never yields two sentinels,
\* and a stream whose upstream failed to connect, answered non-2xx or broke
\* ends with exactly one sentinel.
C20_FailureYieldsOneSentinel ==
    /\ ~genstream.raised
    /\ ErrorCount(genstream.yielded) <= 1
    /\ (genstream.pc = "ended"
            /\ (genstream.broken \/ (genstream.posts >= 1 /\ AnswerFailed(genstream.first))))
        => EndedWithOneSentinel

\* the first answer is the 404 that stream_from_ollama answers with a second
\* request
RetriedWithFallback ==
    /\ genstream.impl = "legacy"
    /\ genstream.local
    /\ genstream.first.connected
    /\ genstream.first.status = 404

\* C20, amended: the same, where a local 404 of stream_from_ollama counts as
\* a failure only when the request repeated with the fallback model fails
\* too.
C20_UnrecoveredFailureYieldsOneSentinel ==
    /\ ~genstream.raised
    /\ ErrorCount(genstream.yielded) <= 1
    /\ (genstream.pc = "ended"
            /\ \/ genstream.broken
               \/ genstream.posts = 1 /\ AnswerFailed(genstream.first) /\ ~RetriedWithFallback
               \/ genstream.posts = 2 /\ AnswerFailed(genstream.last))
        => EndedWithOneSentinel

\* the connection of stream_from_ollama broke after a fragment was yielded:
\* the fragment, then the sentinel
C20_BrokenAfterFragment ==
    /\ genstream.pc = "ended"
    /\ genstream.broken
    /\ Len(genstream.yielded) = 2
    /\ genstream.yielded[2] = StreamErrorText

(***************************************************************************)
(* Properties of the embedder gateway.                                     *)
(***************************************************************************)
GatewayCalls == {"embed_text", "create_embedding", "ollama_embed"}

\* the sticky model, then the other models of the configured list in order
CandidateOrder(sticky) ==
    IF sticky = NoModel THEN EMBED_MODELS
    ELSE <<sticky>> \o SelectSeq(EMBED_MODELS, LAMBDA m : m # sticky)

\* the first model of the order the upstream answers with an embedding
RECURSIVE FirstSuccess(_, _, _)
FirstSuccess(order, up, i) ==
    IF i > Len(order) THEN NoModel
    ELSE IF up[order[i]].kind = "vector" THEN order[i]
    ELSE FirstSuccess(order, up, i + 1)

\* C21: a gateway call for a text, with no model named by the caller, tries
\* the sticky model first, succeeds with the first model of the order that
\* answers, leaves that model as the sticky choice, and leaves no sticky
\* choice when the sticky model and every other model failed.
C21_StickyFirstThenTheList ==
    (ret.op \in GatewayCalls /\ ret.text # <<>> /\ ret.requested = NoModel) =>
        LET order == CandidateOrder(ret.cached0)
            winner == FirstSuccess(order, ret.up, 1)
        IN  /\ ret.tried # <<>>
            /\ ret.tried[1] = order[1]
            /\ ret.model = winner
            /\ winner # NoModel => cached_embed_model = winner
            /\ (winner = NoModel /\ ret.cached0 # NoModel) => cached_embed_model = NoModel

\* C22: the vector a gateway call returns has EMBED_DIM components, all
\* finite, and an L1 norm of at least EPSILON * EMBED_DIM.
C22_VectorWellFormed ==
    (ret.op \in {"embed_text", "create_embedding"}) =>
        /\ Len(ret.vector) = EMBED_DIM
        /\ IsFinite(ret.vector)
        /\ L1Norm(ret.vector) >= EPSILON * EMBED_DIM

AllCandidatesFailed(up) == \A m \in ModelSet : up[m].kind # "vector"

\* C23: the embeddings endpoint answers 500 when every candidate failed, and
\* never answers 200 with the epsilon vector.
C23_AllFailedIs500 ==
    (ret.op \in {"create_embeddings", "v1_embeddings"} /\ ret.text # <<>>) =>
        /\ AllCandidatesFailed(ret.up) => ret.status = 500
        /\ ~(ret.status = 200 /\ ret.vector = EpsVector(EMBED_DIM))

(***************************************************************************)
(* Properties of the context window.                                       *)
(***************************************************************************)
\* C24, as stated: for a non-empty list the number of items returned lies
\* between MIN_CONTEXT_ITEMS (or the number of inputs, when fewer) and
\* MAX_CONTEXT_ITEMS.
C24_ReturnedCountWithinLimits ==
    (ret.op = "optimize" /\ ret.contexts # <<>>) =>
        /\ Len(ret.result) >= Min(ret.min_items, Len(ret.contexts))
        /\ Len(ret.result) <= ret.max_items

\* C24, amended: the number of items selected for the token loop lies
\* between those limits, and the loop returns no more items than were
\* selected.
C24_SelectedCountWithinLimits ==
    (ret.op = "optimize" /\ ret.contexts # <<>>) =>
        /\ Len(ret.selected) >= Min(ret.min_items, Len(ret.contexts))
        /\ Len(ret.selected) <= ret.max_items
        /\ Len(ret.result) <= Len(ret.selected)

\* a hybrid selection out of more contexts than the limit, of which the
\* token loop returned fewer than the minimum
C24_HybridCutByBudget ==
    /\ ret.op = "optimize"
    /\ ret.strategy = "hybrid"
    /\ Len(ret.contexts) > ret.max_items
    /\ Len(ret.selected) = ret.max_items
    /\ Len(ret.result) < ret.min_items

\* the budgeting of the selected items from the i-th on: items that fit,
\* verbatim, then the first item that does not fit, truncated, or nothing
\* when its truncation is too short; nothing after it
RECURSIVE PrefixThenTruncated(_, _, _)
PrefixThenTruncated(selected, i, remaining) ==
    IF i > Len(selected) THEN <<>>
    ELSE IF estimate_token_count(selected[i]) <= remaining
         THEN <<selected[i]>>
              \o PrefixThenTruncated(selected, i + 1,
                                     remaining - estimate_token_count(selected[i]))
         ELSE LET cut == truncate_text_to_tokens(selected[i], remaining)
              IN  IF Len(cut) > MIN_USEFUL_CHARS THEN <<cut>> ELSE <<>>

\* C25: the token loop returns the selected items that fit, verbatim and in
\* order, up to the first item that does not fit, then that item truncated
\* (unless too short), and nothing after it.
C25_PrefixThenOneTruncated ==
    (ret.op = "optimize" /\ ret.contexts # <<>>) =>
        ret.result = PrefixThenTruncated(ret.selected, 1, ret.max_tokens)

(***************************************************************************)
(* Properties of the context override.                                     *)
(***************************************************************************)
\* C26: for an admitted request with a context override and no embedding,
\* the query handed to the pipeline is the override-prefixed text and the
\* embedding the handler acquired is one the embedder gives for that text.
C26_OverrideMergedBeforeEmbedding ==
    (/\ turn.status = 200
     /\ turn.req_embedding = <<>>
     /\ turn.text # <<>>
     /\ turn.context # <<>>) =>
        /\ turn.query = MergeContext(turn.text, turn.context)
        /\ turn.embedding \in EmbedOutcomes(turn.query)

\* C27: a create-collection request is answered 400 when its vectors size
\* differs from the embedding dimension and succeeds when it is equal.
C27_CreateSizeMustBeDim ==
    ret.op = "create_collection" =>
        /\ (ret.size # EMBED_DIM => ret.status = 400)
        /\ (ret.size = EMBED_DIM => ret.status = 200)

(***************************************************************************)
(* The retry of stream_from_ollama.                                        *)
(***************************************************************************)
\* what the stream has yielded apart from error sentinels
StreamedFragments == SelectSeq(genstream.yielded, LAMBDA item : item \notin ErrorTexts)

C28_FallbackFailed ==
    /\ genstream.posts = 2
    /\ AnswerFailed(genstream.last)

(***************************************************************************)
(* The two paths of query_similar_memories.                                *)
(***************************************************************************)
\* the ids of the rows the session holds
SessionIds(session_id) == {r.id : r \in RowsOf(session_id)}

\* C29: a query that returned took the ANN path only when one of the ids the
\* index answered is a row of the session, and for a session holding a row
\* with a valid embedding its result is not empty.
C29_FallbackWhenNoHitInSession ==
    (ret.op = "query" /\ ret.path \in {"ann", "fallback"} /\ ret.limit >= 1) =>
        /\ ret.path = "ann" =>
                \E i \in 1..Len(ret.labels) : ret.labels[i] \in SessionIds(ret.session_id)
        /\ (\E r \in RowsOf(ret.session_id) : ValidEmbedding(r.embedding)) =>
                ret.result # <<>>

\* C30: a query answered on the ANN path returns the rows of the session
\* whose ids the index answered, in the order of the answer, cut to limit.
C30_AnnHitsOfSessionInRankOrder ==
    (ret.op = "query" /\ ret.path = "ann") =>
        ret.result = Take(OrderByLabels(ret.labels, RowsOf(ret.session_id), 1), ret.limit)

(***************************************************************************)
(* Stored rows with a zero or malformed embedding.                         *)
(***************************************************************************)
\* a stored embedding that is the zero vector or not of EMBED_DIM components
BadEmbedding(v) == Len(v) # EMBED_DIM \/ IsZero(v)

\* a query with a valid vector does not fail
C31_ScanDoesNotFail ==
    (ret.op = "query" /\ ret.valid) => ret.path # "raise"

\* a query returns no row with a zero or malformed embedding
C31_BadRowsNotReturned ==
    ret.op = "query" => \A i \in 1..Len(ret.result) : ~BadEmbedding(ret.result[i].embedding)

\* the warm rebuild leaves no zero or malformed vector in the index
C31_RebuildSkipsBadRows ==
    (ret.op = "init" /\ ret.via = "backfill") => \A e \in index : ~BadEmbedding(e.vec)

\* C31: rows whose stored embedding is the zero vector or malformed are
\* skipped: a query with a valid vector never fails and never returns such a
\* row, and the warm rebuild adds none of them to the index.
C31_BadRowsSkipped ==
    /\ C31_ScanDoesNotFail
    /\ C31_BadRowsNotReturned
    /\ C31_RebuildSkipsBadRows

(***************************************************************************)
(* The write path of MemoryService.create_memory.                          *)
(***************************************************************************)
\* C32: a create_memory call that raised changed neither the rows nor the
\* index; one that returned inserted exactly one row, under the id it
\* returns and with an embedding of EMBED_DIM finite components, and left the
\* index either as it was or with that row's id and vector added.
C32_ValidateInsertThenIndex ==
    [][(ret.op = "none" /\ ret'.op = "create") =>
        /\ ret'.status = "raise" => (rows' = rows /\ index' = index)
        /\ ret'.status = "ok" =>
            \E r \in rows' :
                /\ r.id = ret'.id
                /\ r \notin rows
                /\ rows' = rows \cup {r}
                /\ Len(r.embedding) = EMBED_DIM
                /\ IsFinite(r.embedding)
                /\ index' \in {index, index \cup {[id |-> r.id, vec |-> r.embedding]}}]_vars

\* the add to an initialized index failed: the call returned the created
\* memory, its row is stored and the index does not know its id
C32_AddFailedRowKept ==
    /\ ret.op = "create"
    /\ ret.status = "ok"
    /\ initialized
    /\ ret.id \notin IndexIds
    /\ \E r \in rows : r.id = ret.id

(***************************************************************************)
(* The index manager under concurrent callers.                             *)
(***************************************************************************)
\* the threads inside a method body of the manager
InsideManager == {t \in Threads : mgr.pc[t] \in {"in", "loading", "loaded", "adding"}}

\* C33: no search runs over a half-inserted entry, no insertion or load
\* starts while another insertion is under way, and at most one thread is
\* inside a method body of the manager.
C33_AddAtomicForQueries ==
    /\ ~mgr.torn
    /\ ~mgr.overlap
    /\ Cardinality(mgr.partial) <= 1
    /\ Cardinality(InsideManager) <= 1

\* a knn_query waits for the lock while an add_items is half done
C33_QueryWaitsForAdd ==
    \E t, u \in Threads :
        /\ mgr.pc[t] = "adding"
        /\ mgr.pc[u] = "lock"
        /\ mgr.op[u] = "knn_query"

\* C34: a process completes the initialization at most once and the manager
\* is initialized exactly when it has; nothing is inserted before that; the
\* load restores the index file when it exists and loads, and otherwise
\* builds the index from the rows.
C34_InitializedOnce ==
    /\ [](/\ mgr.inits <= 1
          /\ initialized <=> mgr.inits = 1
          /\ ~mgr.early
          /\ mgr.partial # {} => initialized
          /\ mgr.via = "none" => index = {})
    /\ [][(mgr'.via # mgr.via /\ mgr'.via # "none") =>
            IF snapshot.exists /\ ~snapshot.corrupt
            THEN mgr'.via = "snapshot" /\ index' = snapshot.entries
            ELSE mgr'.via = "backfill" /\ index' \in BackfillChoices]_vars
    /\ [][(initialized /\ initialized') =>
            (index \subseteq index' /\ mgr'.inits = mgr.inits)]_vars

\* two threads called initialize_index at once: one waits for the lock while
\* the other loads
C34_SecondCallerWaits ==
    \E t, u \in Threads :
        /\ mgr.pc[t] = "loading"
        /\ mgr.pc[u] = "lock"
        /\ mgr.op[u] = "initialize_index"

(***************************************************************************)
(* The steps of a streaming turn.                                          *)
(***************************************************************************)
\* the retrieval, generation and persistence steps a turn has logged
WorkSteps == SelectSeq(turn.log, LAMBDA s : s \in {"retrieve", "generate", "persist", "persist_failed"})

\* the turn made a cache lookup, and one of its lookups hit
CacheChecked == \E i \in 1..Len(turn.log) : turn.log[i] \in {"exact_hit", "exact_miss", "approx_hit", "approx_miss"}

CacheHit == \E i \in 1..Len(turn.log) : turn.log[i] \in {"exact_hit", "approx_hit"}

\* the retrieval of the turn raised and the turn ended with its error text
RetrievalFailed == \E i \in 1..Len(turn.sent) : turn.sent[i] = RagErrorText

\* retrieval first, persistence (or its failure) last, and between them at
\* most the generation
MissOrder(w) ==
    /\ Len(w) \in {2, 3}
    /\ w[1] = "retrieve"
    /\ w[Len(w)] \in {"persist", "persist_failed"}
    /\ Len(w) = 3 => w[2] = "generate"

\* a done turn after a hit did nothing but replay, and after a miss it has
\* retrieved, generated and then persisted (or failed to persist)
C35_StepsInOrder ==
    (turn.pc = "done" /\ ~RetrievalFailed) =>
        IF CacheHit THEN WorkSteps = <<>> ELSE MissOrder(WorkSteps)

\* C35: a turn that is done, and whose retrieval did not fail, has checked the
\* cache; after a hit it did nothing but replay, and after a miss it has
\* retrieved, generated and then persisted (or failed to persist), in that
\* order and once each.
C35_DoneFollowsStateMachine ==
    /\ (turn.pc = "done" /\ ~RetrievalFailed) => CacheChecked
    /\ C35_StepsInOrder

(***************************************************************************)
(* The caches across sessions.                                             *)
(***************************************************************************)
\* C36: when invalidate_cache_for_session(S) has returned True, neither
\* cache holds an unexpired entry of S.
C36_InvalidateRemovesSession ==
    (ret.op = "invalidate" /\ ret.ok) =>
        /\ \A e \in cache : e.session_id = ret.session_id => ~(e.expires_at > now)
        /\ \A e \in exact_cache : e.session_id = ret.session_id => ~(e.expires_at > now)

\* C37: a lookup of either cache that hits for session S returns a reply
\* that S wrote.
C37_LookupStaysInSession ==
    (ret.op \in {"approx_get", "exact_get"} /\ ret.hit) =>
        ret.response = ReplyOf(ret.session_id)

\* the similarity lookup of one session hits while the other session holds
\* an unexpired entry for the same query and the same vector
C37_HitBesideOtherSession ==
    /\ ret.op = "approx_get"
    /\ ret.hit
    /\ \E e \in cache :
        /\ e.session_id # ret.session_id
        /\ e.query_embedding = ret.embedding
        /\ e.expires_at > now

(***************************************************************************)
(* C38: delete_collection(S) is all-or-nothing.  A step of the call that   *)
(* is not its successful commit changes neither the rows nor the markers;  *)
(* whenever rows of a session disappear, all of them do, the session is    *)
(* marked in the same step, and the rows and markers of every other        *)
(* session stay as they were; a marker never appears without the rows of   *)
(* its session being gone.                                                 *)
(***************************************************************************)
C38_DropAllOrNothing ==
    [][/\ (txn' # txn /\ txn'.result # "true") => (rows' = rows /\ dropped' = dropped)
       /\ \A s \in Sessions :
            (\E r \in rows : r.session_id = s /\ r \notin rows')
                => /\ rows' = {r \in rows : r.session_id # s}
                   /\ dropped' = dropped \cup {s}
       /\ dropped' # dropped
            => \E s \in Sessions : /\ dropped' = dropped \cup {s}
                                    /\ rows' = {r \in rows : r.session_id # s}]_vars

\* the INSERT of the marker failed after the DELETE had run: the rows of the
\* session are still there and the session is not marked
C38_RolledBackAfterDelete ==
    /\ txn.result = "raised"
    /\ txn.at = "insert"
    /\ txn.name \notin dropped
    /\ \E r \in rows : r.session_id = txn.name
    /\ \E r \in rows : r.session_id # txn.name

LookedUp == Tagged("exact_hit") \cup Tagged("exact_miss") # {}

====
